---------------------------- MODULE Spec2Model ----------------------------
(***************************************************************************)
(* Binary (de)serialization of the Concordium SDK: the cursor primitives,  *)
(* the CIS-0 / CIS-4 fixed-layout decoders, the account-transaction        *)
(* envelope, the message-signing digest and the schema-driven value codec. *)
(*                                                                         *)
(* Bytes are naturals 0..255, buffers are sequences of bytes.  A           *)
(* fixed-width integer is held as its base-256 numeral, most significant   *)
(* digit first (a 64-bit integer is a sequence of 8 digits), so that no    *)
(* width is lost; little-endian encoding reverses the numeral, big-endian  *)
(* encoding keeps it.  A hex string is a sequence of nibbles 0..15.  A     *)
(* text string is a sequence of code points.                               *)
(***************************************************************************)
EXTENDS Integers, Sequences, FiniteSets, TLC

VARIABLES pc, inp, out

vars == <<pc, inp, out>>

-----------------------------------------------------------------------------
(* Bounds of the model *)

\* Largest number of addresses carried by a sampled SupportBy result.
MaxAddresses == 2

-----------------------------------------------------------------------------
(* Buffers, numerals, hex and UTF-8 *)

Zeros(n) == [i \in 1..n |-> 0]

Fill(n, b) == [i \in 1..n |-> b]

Reverse(s) == [i \in 1..Len(s) |-> s[Len(s) + 1 - i]]

Take(s, n) == SubSeq(s, 1, n)

Drop(s, n) == SubSeq(s, n + 1, Len(s))

RECURSIVE Flatten(_)
Flatten(ss) == IF ss = <<>> THEN <<>> ELSE Head(ss) \o Flatten(Tail(ss))

\* Buffer.toString('hex'): two nibbles per byte, high nibble first.
toHex(bytes) ==
    [i \in 1..(2 * Len(bytes)) |->
        IF i % 2 = 1 THEN bytes[(i + 1) \div 2] \div 16
        ELSE bytes[i \div 2] % 16]

\* Buffer.from(value, 'hex'): one byte per complete pair of nibbles.
fromHex(hex) ==
    [i \in 1..(Len(hex) \div 2) |-> 16 * hex[2 * i - 1] + hex[2 * i]]

\* The w-digit numeral of a natural n < 2^31.
ToWord(n, w) ==
    [i \in 1..w |-> IF w - i >= 4 THEN 0 ELSE (n \div (256 ^ (w - i))) % 256]

\* Buffer.readUInt16LE / readUInt16BE on a 2-byte buffer.
readUInt16LE(b) == b[1] + 256 * b[2]

readUInt16BE(b) == 256 * b[1] + b[2]

\* Buffer.from(str, 'utf8') for code points below 0x800.
RECURSIVE Utf8Encode(_)
Utf8Encode(cps) ==
    IF cps = <<>> THEN <<>>
    ELSE LET c == Head(cps) IN
         (IF c < 128 THEN <<c>>
          ELSE <<192 + (c \div 64), 128 + (c % 64)>>) \o Utf8Encode(Tail(cps))

\* Buffer.toString('utf8'): malformed input yields U+FFFD, it never throws.
RECURSIVE Utf8Decode(_)
Utf8Decode(bs) ==
    IF bs = <<>> THEN <<>>
    ELSE LET b == Head(bs) IN
         IF b < 128 THEN <<b>> \o Utf8Decode(Tail(bs))
         ELSE IF b >= 194 /\ b < 224 /\ Len(bs) >= 2 /\ bs[2] >= 128 /\ bs[2] < 192
              THEN <<(b - 192) * 64 + (bs[2] - 128)>> \o Utf8Decode(Drop(bs, 2))
              ELSE <<65533>> \o Utf8Decode(Tail(bs))

-----------------------------------------------------------------------------
(* Results of a call: a value with the cursor after it, or an error *)

Ok(v, c) == [ok |-> TRUE, val |-> v, cur |-> c]

Err(e) == [ok |-> FALSE, err |-> e]

\* The errors raised when a read runs past the end of its buffer.
IsUnderflow(e) == e \in {"UnderflowError", "RangeError"}

-----------------------------------------------------------------------------
(* Cursor *)

Cursor(data) == [data |-> data, pos |-> 0]

CursorFromHex(value) == Cursor(fromHex(value))

ReadUnchecked(cursor, n) ==
    Ok([i \in 1..n |-> IF cursor.pos + i <= Len(cursor.data)
                       THEN cursor.data[cursor.pos + i] ELSE 0],
       [cursor EXCEPT !.pos = cursor.pos + n])

\* cursor.read(n): the next n bytes, or an underflow error.
Read(cursor, n) ==
    LET end == cursor.pos + n IN
    IF Len(cursor.data) < end THEN Err("UnderflowError")
    ELSE Ok(SubSeq(cursor.data, cursor.pos + 1, end),
            [cursor EXCEPT !.pos = end])

-----------------------------------------------------------------------------
(* Write-side primitives *)

encodeBool(b) == IF b THEN <<1>> ELSE <<0>>

encodeWord16(n, useLittleEndian) ==
    IF useLittleEndian THEN Reverse(ToWord(n, 2)) ELSE ToWord(n, 2)

\* value is a 64-bit numeral.
encodeWord64(value, useLittleEndian) ==
    IF useLittleEndian THEN Reverse(value) ELSE value

packBufferWithWord8Length(buf) == <<Len(buf)>> \o buf

packBufferWithWord16Length(buf, useLittleEndian) ==
    encodeWord16(Len(buf), useLittleEndian) \o buf

-----------------------------------------------------------------------------
(* CIS-2 metadata url: u16 LE length, the url, a checksum flag, the hash *)

HasField(r, f) == f \in DOMAIN r

serializeCIS2MetadataUrl(m) ==
    LET bUrl == Utf8Encode(m.url) IN
    encodeWord16(Len(bUrl), TRUE) \o bUrl \o
    (IF HasField(m, "hash") THEN <<1>> \o fromHex(m.hash) ELSE <<0>>)

deserializeCIS2MetadataUrl(cursor) ==
    LET l == Read(cursor, 2) IN
    IF ~l.ok THEN l ELSE
    LET u == Read(l.cur, readUInt16LE(l.val)) IN
    IF ~u.ok THEN u ELSE
    LET f == Read(u.cur, 1) IN
    IF ~f.ok THEN f ELSE
    IF f.val[1] = 1
    THEN LET h == Read(f.cur, 32) IN
         IF ~h.ok THEN h
         ELSE Ok([url |-> Utf8Decode(u.val), hash |-> toHex(h.val)], h.cur)
    ELSE IF f.val[1] = 0
         THEN Ok([url |-> Utf8Decode(u.val)], f.cur)
         ELSE Err("InvalidBooleanError")

-----------------------------------------------------------------------------
(* CIS-4 *)

Undefined == [undefined |-> TRUE]

\* A Date is held as the 64-bit numeral of its millisecond value.
serializeDate(date) == encodeWord64(date.ms, TRUE)

deserializeDate(cursor) ==
    LET r == Read(cursor, 8) IN
    IF ~r.ok THEN r ELSE Ok([ms |-> Reverse(r.val)], r.cur)

deserializeEd25519PublicKey(cursor) ==
    LET r == Read(cursor, 32) IN
    IF ~r.ok THEN r ELSE Ok(toHex(r.val), r.cur)

\* The decoders handed to deserializeOptional, by name.
CallDecoder(fun, cursor) ==
    CASE fun = "deserializeDate" -> deserializeDate(cursor)
      [] fun = "deserializeEd25519PublicKey" -> deserializeEd25519PublicKey(cursor)

deserializeOptional(cursor, fun) ==
    LET r == Read(cursor, 1) IN
    IF ~r.ok THEN r ELSE
    LET hasValue == r.val[1] IN
    IF hasValue = 0 THEN Ok(Undefined, r.cur)
    ELSE CallDecoder(fun, r.cur)

makeSerializeOptionalDate(value) ==
    IF value = Undefined THEN encodeBool(FALSE)
    ELSE encodeBool(TRUE) \o serializeDate(value)

serializeCIS4CredentialInfo(credInfo) ==
    fromHex(credInfo.holderPubKey) \o
    encodeBool(credInfo.holderRevocable) \o
    serializeDate(credInfo.validFrom) \o
    makeSerializeOptionalDate(credInfo.validUntil) \o
    serializeCIS2MetadataUrl(credInfo.metadataUrl)

deserializeCIS4CredentialInfo(cursor) ==
    LET k == deserializeEd25519PublicKey(cursor) IN
    IF ~k.ok THEN k ELSE
    LET b == Read(k.cur, 1) IN
    IF ~b.ok THEN b ELSE
    LET vf == deserializeDate(b.cur) IN
    IF ~vf.ok THEN vf ELSE
    LET vu == deserializeOptional(vf.cur, "deserializeDate") IN
    IF ~vu.ok THEN vu ELSE
    LET m == deserializeCIS2MetadataUrl(vu.cur) IN
    IF ~m.ok THEN m ELSE
    Ok([holderPubKey |-> k.val,
        holderRevocable |-> (b.val[1] = 1),
        validFrom |-> vf.val,
        validUntil |-> vu.val,
        metadataUrl |-> m.val], m.cur)

\* The bytes of a credential entry, as the contract returns them.
serializeCIS4CredentialEntry(entry) ==
    serializeCIS4CredentialInfo(entry.credentialInfo) \o
    serializeCIS2MetadataUrl(entry.schemaRef) \o
    encodeWord64(entry.revocationNonce, TRUE)

deserializeCIS4CredentialEntry(value) ==
    LET cursor == CursorFromHex(value)
        ci == deserializeCIS4CredentialInfo(cursor) IN
    IF ~ci.ok THEN ci ELSE
    LET sr == deserializeCIS2MetadataUrl(ci.cur) IN
    IF ~sr.ok THEN sr ELSE
    LET n == Read(sr.cur, 8) IN
    IF ~n.ok THEN n ELSE
    Ok([credentialInfo |-> ci.val,
        schemaRef |-> sr.val,
        revocationNonce |-> Reverse(n.val)], n.cur)

\* CIS4.CredentialStatus: Active, Revoked, Expired, NotActivated.
CredentialStatus == {0, 1, 2, 3}

\* Buffer.readUInt8(0) throws a RangeError on an empty buffer.
deserializeCIS4CredentialStatus(value) ==
    LET b == fromHex(value) IN
    IF Len(b) < 1 THEN Err("RangeError")
    ELSE Ok(b[1], [data |-> b, pos |-> 1])

deserializeCIS4RevocationKeyLenient(cursor) ==
    LET k == deserializeEd25519PublicKey(cursor) IN
    IF ~k.ok THEN k ELSE
    LET n == ReadUnchecked(k.cur, 8) IN
    Ok([key |-> k.val, nonce |-> Reverse(n.val)], n.cur)

deserializeCIS4RevocationKey(cursor) ==
    LET k == deserializeEd25519PublicKey(cursor) IN
    IF ~k.ok THEN k ELSE
    LET n == Read(k.cur, 8) IN
    IF ~n.ok THEN n ELSE
    Ok([key |-> k.val, nonce |-> Reverse(n.val)], n.cur)

deserializeCredentialType(cursor) ==
    LET l == Read(cursor, 1) IN
    IF ~l.ok THEN l ELSE
    LET s == Read(l.cur, l.val[1]) IN
    IF ~s.ok THEN s ELSE Ok(Utf8Decode(s.val), s.cur)

serializeCIS4MetadataResponse(r) ==
    serializeCIS2MetadataUrl(r.issuerMetadata) \o
    packBufferWithWord8Length(Utf8Encode(r.credentialType)) \o
    serializeCIS2MetadataUrl(r.credentialSchema)

deserializeCIS4MetadataResponse(value) ==
    LET cursor == CursorFromHex(value)
        im == deserializeCIS2MetadataUrl(cursor) IN
    IF ~im.ok THEN im ELSE
    LET ct == deserializeCredentialType(im.cur) IN
    IF ~ct.ok THEN ct ELSE
    LET cs == deserializeCIS2MetadataUrl(ct.cur) IN
    IF ~cs.ok THEN cs ELSE
    Ok([issuerMetadata |-> im.val,
        credentialType |-> ct.val,
        credentialSchema |-> cs.val], cs.cur)

-----------------------------------------------------------------------------
(* CIS-0: one support result, read from a buffer at offset 0 *)

\* Buffer.readBigUInt64LE(offset): a RangeError when 8 bytes are not there.
readBigUInt64LE(buffer, offset) ==
    IF offset + 8 > Len(buffer) THEN Err("RangeError")
    ELSE Ok(Reverse(SubSeq(buffer, offset + 1, offset + 8)), offset + 8)

RECURSIVE ReadAddressesShort(_, _, _, _)
ReadAddressesShort(buffer, cursor, i, numAddresses) ==
    IF i >= numAddresses \/ cursor + 16 > Len(buffer)
    THEN Ok(<<>>, cursor)
    ELSE LET index == readBigUInt64LE(buffer, cursor)
             subindex == readBigUInt64LE(buffer, index.cur)
             rest == ReadAddressesShort(buffer, subindex.cur, i + 1, numAddresses)
         IN Ok(<<[index |-> index.val, subindex |-> subindex.val]>> \o rest.val,
               rest.cur)

\* for (let i = 0; i < numAddresses; i++) { index; subindex; push }
RECURSIVE ReadAddresses(_, _, _, _)
ReadAddresses(buffer, cursor, i, numAddresses) ==
    IF i >= numAddresses THEN Ok(<<>>, cursor)
    ELSE LET index == readBigUInt64LE(buffer, cursor) IN
         IF ~index.ok THEN index ELSE
         LET subindex == readBigUInt64LE(buffer, index.cur) IN
         IF ~subindex.ok THEN subindex ELSE
         LET rest == ReadAddresses(buffer, subindex.cur, i + 1, numAddresses) IN
         IF ~rest.ok THEN rest
         ELSE Ok(<<[index |-> index.val, subindex |-> subindex.val]>> \o rest.val,
                 rest.cur)

\* The result's cur is bytesRead.
deserializeSupportResultItem(buffer) ==
    IF Len(buffer) < 1 THEN Err("RangeError") ELSE
    LET rawType == buffer[1] IN
    IF rawType > 2 THEN Err("Unsupported support result type") ELSE
    IF rawType # 2 THEN Ok([type |-> rawType], 1) ELSE
    IF Len(buffer) < 2 THEN Err("RangeError") ELSE
    LET numAddresses == buffer[2]
        as == ReadAddresses(buffer, 2, 0, numAddresses) IN
    IF ~as.ok THEN as
    ELSE Ok([type |-> 2, addresses |-> as.val], as.cur)

\* A contract address: index and subindex, 8 bytes little-endian each.
serializeContractAddress(address) ==
    encodeWord64(address.index, TRUE) \o encodeWord64(address.subindex, TRUE)

\* An entrypoint name behind its 2-byte little-endian length.
serializeReceiveHookName(hook) == packBufferWithWord16Length(hook, TRUE)

\* A reason is held as [str |-> code points].
serializeReason(reason) == packBufferWithWord8Length(Utf8Encode(reason.str))

makeSerializeOptionalReason(value) ==
    IF value = Undefined THEN encodeBool(FALSE)
    ELSE encodeBool(TRUE) \o serializeReason(value)

\* encodeWord64(data.signingData.nonce) is called without the
\* useLittleEndian argument.
serializeCIS4RevocationDataHolder(data) ==
    fromHex(data.credentialPubKey) \o
    serializeContractAddress(data.signingData.contractAddress) \o
    serializeReceiveHookName(data.signingData.entrypoint) \o
    encodeWord64(data.signingData.nonce, FALSE) \o
    serializeDate(data.signingData.timestamp) \o
    makeSerializeOptionalReason(data.reason)

serializeCIS4RevocationDataOther(data) ==
    fromHex(data.credentialPubKey) \o
    serializeContractAddress(data.signingData.contractAddress) \o
    serializeReceiveHookName(data.signingData.entrypoint) \o
    encodeWord64(data.signingData.nonce, FALSE) \o
    serializeDate(data.signingData.timestamp) \o
    fromHex(data.revocationPubKey) \o
    makeSerializeOptionalReason(data.reason)

\* One element decoded at offset pos of the buffer; the result's cur is the
\* offset behind the element. The CIS-4 element decoder reads through the
\* cursor, the CIS-0 one gets the rest of the buffer and reports bytesRead.
CallItemDeserializer(deserializer, buffer, pos) ==
    CASE deserializer = "deserializeCIS4RevocationKey" ->
           LET Moved(r) == IF r.ok THEN Ok(r.val, r.cur.pos) ELSE r
           IN Moved(deserializeCIS4RevocationKey([data |-> buffer, pos |-> pos]))
      [] deserializer = "deserializeSupportResultItem" ->
           LET Moved(r) == IF r.ok THEN Ok(r.val, pos + r.cur) ELSE r
           IN Moved(deserializeSupportResultItem(
                        SubSeq(buffer, pos + 1, Len(buffer))))

\* Mutant of ListResponseFrom: a 2-byte little-endian count comes first and
\* that many elements are decoded.
RECURSIVE CountedItems(_, _, _, _)
CountedItems(deserializer, buffer, pos, n) ==
    LET Rest_(item, rest) ==
            IF ~rest.ok THEN rest ELSE Ok(<<item.val>> \o rest.val, rest.cur)
        Item_(item) ==
            IF ~item.ok THEN item
            ELSE Rest_(item, CountedItems(deserializer, buffer, item.cur, n - 1))
    IN IF n = 0 THEN Ok(<<>>, pos)
       ELSE Item_(CallItemDeserializer(deserializer, buffer, pos))

ListResponseCounted(deserializer, buffer, pos) ==
    IF Len(buffer) < pos + 2 THEN Err("RangeError")
    ELSE CountedItems(deserializer, buffer, pos + 2,
                      readUInt16LE(SubSeq(buffer, pos + 1, pos + 2)))

\* Elements are decoded one behind the other until no byte is left.
RECURSIVE ListResponseFrom(_, _, _)
ListResponseFrom(deserializer, buffer, pos) ==
    LET Rest_(item, rest) ==
            IF ~rest.ok THEN rest ELSE Ok(<<item.val>> \o rest.val, rest.cur)
        Item_(item) ==
            IF ~item.ok THEN item
            ELSE Rest_(item, ListResponseFrom(deserializer, buffer, item.cur))
    IN IF pos >= Len(buffer) THEN Ok(<<>>, pos)
       ELSE Item_(CallItemDeserializer(deserializer, buffer, pos))

makeDeserializeListResponse(deserializer, value) ==
    ListResponseFrom(deserializer, fromHex(value), 0)

deserializeSupportResult(value) ==
    makeDeserializeListResponse("deserializeSupportResultItem", value)

deserializeCIS4RevocationKeys(value) ==
    makeDeserializeListResponse("deserializeCIS4RevocationKey", value)

-----------------------------------------------------------------------------
(* cis0Supports: strings are sequences of character codes *)

\* A standard identifier behind its 1-byte length.
serializeSupportIdentifier(id) == packBufferWithWord8Length(id)

\* The number of identifiers, 2 bytes little-endian, then each of them.
serializeSupportIdentifiers(ids) ==
    encodeWord16(Len(ids), TRUE) \o
    Flatten([i \in 1..Len(ids) |-> serializeSupportIdentifier(ids[i])])

\* The argument of cis0Supports is [isArray |-> TRUE, ids |-> a sequence] or
\* [isArray |-> FALSE, id |-> one identifier]; makeDynamicFunction hands a
\* list to the serializer either way.
makeDynamicFunctionIds(standardIds) ==
    IF standardIds.isArray THEN standardIds.ids ELSE <<standardIds.id>>

\* "init_<contractName>" without its first five characters.
getContractName(instanceInfo) ==
    SubSeq(instanceInfo.name, 6, Len(instanceInfo.name))

\* ".supports"
DotSupports == <<46, 115, 117, 112, 112, 111, 114, 116, 115>>

Thrown(error, invokes) ==
    [state |-> "thrown", error |-> error, invokes |-> invokes]

Returned(value, invokes) ==
    [state |-> "returned", value |-> value, invokes |-> invokes]

\* Mutant of cis0SupportsAfterInstanceInfo: the method list is not looked at.
cis0SupportsAlwaysInvoke(standardIds, instanceInfo) ==
    IF instanceInfo = Undefined
    THEN Thrown("Could not get contract instance info", <<>>)
    ELSE [state |-> "invoking",
          invokes |-> <<[method |-> getContractName(instanceInfo) \o DotSupports,
                         parameter |-> serializeSupportIdentifiers(
                                           makeDynamicFunctionIds(standardIds))]>>]

\* cis0Supports from the answer of getInstanceInfo up to its next await.
cis0SupportsAfterInstanceInfo(standardIds, instanceInfo) ==
    IF instanceInfo = Undefined
    THEN Thrown("Could not get contract instance info", <<>>)
    ELSE IF (getContractName(instanceInfo) \o DotSupports)
                \notin instanceInfo.methods
    THEN Returned(Undefined, <<>>)
    ELSE [state |-> "invoking",
          invokes |-> <<[method |-> getContractName(instanceInfo) \o DotSupports,
                         parameter |-> serializeSupportIdentifiers(
                                           makeDynamicFunctionIds(standardIds))]>>]

\* results[0] of an array; a list that is returned is [array |-> results].
FirstOf(results) == IF results = <<>> THEN Undefined ELSE results[1]

\* Mutant of cis0SupportsResult: the lengths are not compared.
cis0SupportsResultUnchecked(standardIds, results, invokes) ==
    IF standardIds.isArray THEN Returned([array |-> results], invokes)
    ELSE Returned(FirstOf(results), invokes)

cis0SupportsResult(standardIds, results, invokes) ==
    LET expectedValuesLength ==
            IF standardIds.isArray THEN Len(standardIds.ids) ELSE 1 IN
    IF Len(results) # expectedValuesLength
    THEN Thrown("Mismatch between length of queries in request and values in response.",
                invokes)
    ELSE IF standardIds.isArray THEN Returned([array |-> results], invokes)
    ELSE Returned(FirstOf(results), invokes)

\* cis0Supports from the answer of invokeContract to its end. Building the
\* message of the error reads response.tag, a TypeError when there is no
\* response.
cis0SupportsAfterInvoke(standardIds, response, invokes) ==
    LET Results_(results) ==
            IF ~results.ok THEN Thrown(results.err, invokes)
            ELSE cis0SupportsResult(standardIds, results.val, invokes)
    IN  IF response = Undefined THEN Thrown("TypeError", invokes)
        ELSE IF response.tag = "failure" \/ ~HasField(response, "returnValue")
        THEN Thrown("Failed to invoke support", invokes)
        ELSE Results_(deserializeSupportResult(response.returnValue))

-----------------------------------------------------------------------------
(* Inputs of the node queries. A string argument is [given |-> FALSE] when
   it is omitted and [given |-> TRUE, str |-> its characters] otherwise; a
   character is the value of a hex digit, or NotHex. *)

\* A character that is no hex digit.
NotHex == 16

\* 64 characters, all of them hex digits.
isValidHash(hash) ==
    Len(hash) = 64 /\ \A i \in 1..Len(hash) : hash[i] < NotHex

\* Mutant of getBlockHashInput: the hash is not checked.
getBlockHashInputUnchecked(blockHash) ==
    IF blockHash.given /\ blockHash.str # <<>>
    THEN [ok |-> TRUE,
          val |-> [oneofKind |-> "given", given |-> fromHex(blockHash.str)]]
    ELSE [ok |-> TRUE, val |-> [oneofKind |-> "lastFinal"]]

\* if (blockHash): neither omitted nor the empty string.
getBlockHashInput(blockHash) ==
    IF blockHash.given /\ blockHash.str # <<>>
    THEN IF ~isValidHash(blockHash.str)
         THEN Err("The input was not a valid hash, must be 32 bytes")
         ELSE [ok |-> TRUE,
               val |-> [oneofKind |-> "given", given |-> fromHex(blockHash.str)]]
    ELSE [ok |-> TRUE, val |-> [oneofKind |-> "lastFinal"]]

\* getModuleSource up to its await: the request is built and sent, unless
\* building it throws. requests are the requests sent.
getModuleSourceRequest(moduleRef, blockHash) ==
    LET Input_(blockHashInput) ==
            IF ~blockHashInput.ok
            THEN [state |-> "thrown", error |-> blockHashInput.err,
                  requests |-> <<>>]
            ELSE [state |-> "awaiting",
                  requests |-> <<[blockHash |-> blockHashInput.val,
                                  moduleRef |-> moduleRef]>>]
    IN  Input_(getBlockHashInput(blockHash))

\* getModuleSource from the response on.
getModuleSourceResponse(response, requests) ==
    IF response.oneofKind \in {"v0", "v1"}
    THEN [state |-> "returned", value |-> response.value, requests |-> requests]
    ELSE [state |-> "thrown",
          error |-> "Invalid ModuleSource response received!",
          requests |-> requests]

\* An invoker is undefined, an AccountAddress (it has decodedAddress, a
\* Buffer) or a ContractAddress (index and subindex, bigints). A Buffer is
\* truthy whatever its bytes; of the bigints only 0n is falsy.
getInvokerInput(invoker) ==
    IF "undefined" \in DOMAIN invoker
    THEN [state |-> "returned", value |-> [undefined |-> TRUE]]
    ELSE IF "decodedAddress" \in DOMAIN invoker
    THEN [state |-> "returned",
          value |-> [type |-> [oneofKind |-> "account",
                               account |-> [value |-> invoker.decodedAddress]]]]
    ELSE IF "index" \in DOMAIN invoker /\ invoker.index # 0
    THEN [state |-> "returned",
          value |-> [type |-> [oneofKind |-> "contract",
                               contract |-> invoker]]]
    ELSE [state |-> "thrown", error |-> "Unexpected input to build invoker"]

-----------------------------------------------------------------------------
(* Duration and Timestamp.
   A JavaScript number is [kind |-> "integer", n |-> its value], a number
   with a fractional part [kind |-> "fraction", floor |-> the integer
   below it] or [kind |-> "NaN"]; a bigint is of the first kind. A string
   is the sequence of its characters. *)

Integer(n) == [kind |-> "integer", n |-> n]

\* value < 0; every comparison with NaN is false.
IsBelowZero(value) ==
    CASE value.kind = "integer" -> value.n < 0
      [] value.kind = "fraction" -> value.floor < 0
      [] OTHER -> FALSE

\* BigInt(value) of a number: a RangeError unless it is an integer.
BigInt(value) ==
    IF value.kind = "integer" THEN [ok |-> TRUE, val |-> value.n]
    ELSE Err("RangeError")

Digits == <<"0", "1", "2", "3", "4", "5", "6", "7", "8", "9">>

IsDigit(c) == \E i \in 1..10 : Digits[i] = c

DigitValue(c) == (CHOOSE i \in 1..10 : Digits[i] = c) - 1

\* parseInt(valueString, 10) of a string of digits.
RECURSIVE parseInt(_)
parseInt(valueString) ==
    IF valueString = <<>> THEN 0
    ELSE 10 * parseInt(Take(valueString, Len(valueString) - 1))
            + DigitValue(valueString[Len(valueString)])

\* The decimal numeral of a bigint that is not negative.
RECURSIVE NumeralOf(_)
NumeralOf(n) ==
    IF n < 10 THEN <<Digits[n + 1]>>
    ELSE NumeralOf(n \div 10) \o <<Digits[(n % 10) + 1]>>

\* Mutant of DurationFromMillis: the sign is not looked at.
DurationFromMillisUnchecked(value) ==
    LET Made_(b) == IF ~b.ok THEN b ELSE [ok |-> TRUE, val |-> [value |-> b.val]]
    IN  Made_(BigInt(value))

\* Duration.fromMillis
DurationFromMillis(value) ==
    IF IsBelowZero(value)
    THEN Err("Invalid duration: The value cannot be a negative number.")
    ELSE LET Made_(b) ==
                 IF ~b.ok THEN b ELSE [ok |-> TRUE, val |-> [value |-> b.val]]
         IN  Made_(BigInt(value))

\* durationString.split(' '): the pieces between the spaces, empty ones
\* included.
RECURSIVE Split(_)
Split(str) ==
    IF \A i \in 1..Len(str) : str[i] # " " THEN <<str>>
    ELSE LET at == CHOOSE i \in 1..Len(str) :
                        /\ str[i] = " "
                        /\ \A j \in 1..(i - 1) : str[j] # " "
         IN  <<Take(str, at - 1)>> \o Split(Drop(str, at))

\* How many digits a string starts with.
LeadingDigits(measure) ==
    IF \A i \in 1..Len(measure) : IsDigit(measure[i]) THEN Len(measure)
    ELSE (CHOOSE i \in 1..Len(measure) :
              /\ ~IsDigit(measure[i])
              /\ \A j \in 1..(i - 1) : IsDigit(measure[j])) - 1

Units == {<<"m", "s">>, <<"s">>, <<"m">>, <<"h">>, <<"d">>}

\* measure.match(/^(\d+)(ms|s|m|h|d)$/)
stringMeasureRegexp(measure) ==
    LET Match_(k) ==
            IF k > 0 /\ Drop(measure, k) \in Units
            THEN [matched |-> TRUE, valueString |-> Take(measure, k),
                  unit |-> Drop(measure, k)]
            ELSE [matched |-> FALSE]
    IN  Match_(LeadingDigits(measure))

\* The milliseconds of one unit.
MillisOf(unit) ==
    CASE unit = <<"m", "s">> -> 1
      [] unit = <<"s">> -> 1000
      [] unit = <<"m">> -> 1000 * 60
      [] unit = <<"h">> -> 1000 * 60 * 60
      [] unit = <<"d">> -> 1000 * 60 * 60 * 24

\* The loop of Duration.fromString over the measures, from the sum so far.
RECURSIVE AddMeasures(_, _)
AddMeasures(measures, durationInMillis) ==
    IF measures = <<>> THEN [ok |-> TRUE, val |-> durationInMillis]
    ELSE LET Add_(result) ==
                 IF ~result.matched THEN Err("Invalid duration format")
                 ELSE AddMeasures(Tail(measures),
                          durationInMillis
                              + parseInt(result.valueString)
                                    * MillisOf(result.unit))
         IN  Add_(stringMeasureRegexp(Head(measures)))

\* Duration.fromString
DurationFromString(durationString) ==
    LET Sum_(sum) ==
            IF ~sum.ok THEN sum ELSE DurationFromMillis(Integer(sum.val))
    IN  Sum_(AddMeasures(Split(durationString), 0))

\* Duration.toSchemaValue: `${duration.value} ms`
DurationToSchemaValue(duration) ==
    NumeralOf(duration.value) \o <<" ", "m", "s">>

\* Duration.fromSchemaValue
DurationFromSchemaValue(duration) == DurationFromString(duration)

\* Duration.fromProto
DurationFromProto(duration) == DurationFromMillis(Integer(duration.value))

\* Timestamp.fromMillis
TimestampFromMillis(value) ==
    IF IsBelowZero(value)
    THEN Err("Invalid timestamp: The value cannot be a negative number.")
    ELSE LET Made_(b) ==
                 IF ~b.ok THEN b ELSE [ok |-> TRUE, val |-> [value |-> b.val]]
         IN  Made_(BigInt(value))

\* Timestamp.fromDate. A Date is [time |-> what getTime() gives], NaN for an
\* invalid Date.
TimestampFromDate(date) == TimestampFromMillis(date.time)

\* Date.parse on the date strings used here; NaN for what is no date.
DateParse(timestamp) ==
    CASE timestamp = "1970-01-01T00:00:00.000Z" -> Integer(0)
      [] timestamp = "1970-01-01T00:00:01.500Z" -> Integer(1500)
      [] timestamp = "1970-01-02T00:00:00.000Z" -> Integer(86400000)
      [] timestamp = "1969-12-31T23:59:59.999Z" -> Integer(0 - 1)
      [] timestamp = "1969-01-01T00:00:00.000Z" -> Integer(0 - 31536000)
      [] OTHER -> [kind |-> "NaN"]

\* Timestamp.fromSchemaValue
TimestampFromSchemaValue(timestamp) == TimestampFromMillis(DateParse(timestamp))

\* Timestamp.fromProto
TimestampFromProto(timestamp) == TimestampFromMillis(Integer(timestamp.value))

\* BigInt(v) of a string: an optional minus sign and digits, the empty
\* string being 0n; a SyntaxError for anything else.
StringToBigInt(v) ==
    LET digits == IF v # <<>> /\ v[1] = "-" THEN Tail(v) ELSE v IN
    IF v = <<>> THEN [ok |-> TRUE, val |-> 0]
    ELSE IF digits = <<>> \/ LeadingDigits(digits) < Len(digits)
    THEN Err("SyntaxError")
    ELSE [ok |-> TRUE,
          val |-> IF v[1] = "-" THEN 0 - parseInt(digits) ELSE parseInt(digits)]

\* fromSerializable of Timestamp
fromSerializable(v) ==
    LET Big_(b) == IF ~b.ok THEN b ELSE TimestampFromMillis(Integer(b.val))
    IN  Big_(StringToBigInt(v))

\* Timestamp.JSON_DISCRIMINATOR
JSON_DISCRIMINATOR == "ccd_timestamp"

\* Timestamp.fromTypedJSON: makeFromTypedJson refuses another discriminator
\* and hands the value to fromSerializable.
TimestampFromTypedJSON(json) ==
    IF json.type # JSON_DISCRIMINATOR THEN Err("TypedJsonParseError")
    ELSE fromSerializable(json.value)

-----------------------------------------------------------------------------
(* Decode calls in progress: one statement of a call at a time *)

\* The reads of deserializeCIS4CredentialEntry, in order.
EntryStages ==
    <<"holderPubKey", "holderRevocable", "validFrom", "validUntil",
      "metadataUrl", "schemaRef", "revocationNonce">>

StageAfter(stage) ==
    LET i == CHOOSE j \in 1..Len(EntryStages) : EntryStages[j] = stage
    IN  IF i = Len(EntryStages) THEN "return" ELSE EntryStages[i + 1]

\* A call that has just begun: its cursor is made from its own value.
BeginCall(fun, value) ==
    [fun |-> fun,
     cursor |-> CursorFromHex(value),
     stage |-> IF fun = "deserializeCIS4CredentialEntry"
               THEN EntryStages[1] ELSE "item",
     acc |-> <<>>,
     result |-> Undefined]

\* Mutant of CursorOf: every call reads through the cursor of the first.
CursorOfFirst(calls, p) == calls[1].cursor

\* The cursor call p reads through: the one it made itself.
CursorOf(calls, p) == calls[p].cursor

\* What the statement at a stage reads from the cursor.
StageRead(stage, cursor) ==
    CASE stage = "holderPubKey" -> deserializeEd25519PublicKey(cursor)
      [] stage = "holderRevocable" ->
           LET Bool_(b) == IF ~b.ok THEN b ELSE Ok(b.val[1] = 1, b.cur)
           IN  Bool_(Read(cursor, 1))
      [] stage = "validFrom" -> deserializeDate(cursor)
      [] stage = "validUntil" -> deserializeOptional(cursor, "deserializeDate")
      [] stage \in {"metadataUrl", "schemaRef"} ->
           deserializeCIS2MetadataUrl(cursor)
      [] stage = "revocationNonce" ->
           LET Nonce_(n) == IF ~n.ok THEN n ELSE Ok(Reverse(n.val), n.cur)
           IN  Nonce_(Read(cursor, 8))
      [] stage = "item" ->
           LET Item_(r) ==
                   IF ~r.ok THEN r
                   ELSE Ok(r.val, [data |-> cursor.data, pos |-> r.cur])
           IN  Item_(CallItemDeserializer("deserializeSupportResultItem",
                                          cursor.data, cursor.pos))

\* The entry a call returns from what its reads gave.
EntryOf(acc) ==
    [credentialInfo |-> [holderPubKey |-> acc[1],
                         holderRevocable |-> acc[2],
                         validFrom |-> acc[3],
                         validUntil |-> acc[4],
                         metadataUrl |-> acc[5]],
     schemaRef |-> acc[6],
     revocationNonce |-> acc[7]]

\* Call c after its next statement, which read r.
AfterRead(c, r) ==
    IF ~r.ok THEN [c EXCEPT !.stage = "thrown", !.result = r]
    ELSE IF c.stage = "revocationNonce"
    THEN [c EXCEPT !.stage = "returned", !.cursor = r.cur,
                   !.acc = Append(c.acc, r.val),
                   !.result = Ok(EntryOf(Append(c.acc, r.val)), r.cur)]
    ELSE IF c.stage = "item"
    THEN [c EXCEPT !.cursor = r.cur, !.acc = Append(c.acc, r.val)]
    ELSE [c EXCEPT !.stage = StageAfter(c.stage), !.cursor = r.cur,
                   !.acc = Append(c.acc, r.val)]

\* The next statement of call p. A list call looks first whether bytes are
\* left.
StepOf(calls, p) ==
    IF calls[p].stage = "item" /\
       CursorOf(calls, p).pos >= Len(CursorOf(calls, p).data)
    THEN [calls[p] EXCEPT !.stage = "returned",
                          !.result = Ok(calls[p].acc, CursorOf(calls, p).pos)]
    ELSE AfterRead(calls[p], StageRead(calls[p].stage, CursorOf(calls, p)))

-----------------------------------------------------------------------------
(* Account transactions: payload, header, signatures, submission envelope *)

\* The kinds deserializeTransaction decodes.
SupportedKinds == {"Transfer", "TransferWithMemo", "RegisterData"}

\* The kinds the SDK serializes (those the model samples).
SerializableKinds == SupportedKinds \cup {"ConfigureDelegation"}

\* AccountTransactionType: the 1-byte tag of a kind.
TypeTag(type) ==
    CASE type = "Transfer" -> 3
      [] type = "RegisterData" -> 21
      [] type = "TransferWithMemo" -> 22
      [] type = "ConfigureDelegation" -> 26

TagType(tag) ==
    CASE tag = 3 -> "Transfer"
      [] tag = 21 -> "RegisterData"
      [] tag = 22 -> "TransferWithMemo"
      [] tag = 26 -> "ConfigureDelegation"
      [] OTHER -> "Unknown"

\* The payload after its tag.
serializePayloadBody(type, payload) ==
    CASE type = "Transfer" ->
            payload.toAddress.decodedAddress \o encodeWord64(payload.amount, FALSE)
      [] type = "TransferWithMemo" ->
            payload.toAddress.decodedAddress \o
            packBufferWithWord16Length(payload.memo, FALSE) \o
            encodeWord64(payload.amount, FALSE)
      [] type = "RegisterData" ->
            packBufferWithWord16Length(payload.data, FALSE)
      [] type = "ConfigureDelegation" ->
            \* the bitmap of the fields present (stake only), then the stake
            encodeWord16(1, FALSE) \o encodeWord64(payload.stake, FALSE)

serializeAccountTransactionPayload(transaction) ==
    <<TypeTag(transaction.type)>> \o
    serializePayloadBody(transaction.type, transaction.payload)

RECURSIVE SortedSeq(_)
SortedSeq(S) ==
    IF S = {} THEN <<>>
    ELSE LET m == CHOOSE x \in S : \A y \in S : x <= y IN
         <<m>> \o SortedSeq(S \ {m})

RECURSIVE SumSeq(_)
SumSeq(ns) == IF ns = <<>> THEN 0 ELSE Head(ns) + SumSeq(Tail(ns))

\* The number of signatures of a map credential index -> key index -> signature.
countSignatures(signature) ==
    LET cs == SortedSeq(DOMAIN signature) IN
    SumSeq([i \in 1..Len(cs) |-> Cardinality(DOMAIN signature[cs[i]])])

getBaseEnergyCost(type) == 300

\* 100 energy per signature, 1 per byte of the 60-byte header and the payload.
calculateEnergyCost(signatureCount, payloadSize, transactionSpecificCost) ==
    100 * signatureCount + 1 * (60 + payloadSize) + transactionSpecificCost

\* The energy the sender of a transaction puts in its header.
energyCost(transaction, signature) ==
    calculateEnergyCost(countSignatures(signature),
                        Len(serializeAccountTransactionPayload(transaction)),
                        getBaseEnergyCost(transaction.type))

serializeAccountTransactionHeader(header, payloadSize, energy) ==
    header.sender.decodedAddress \o
    encodeWord64(header.nonce, FALSE) \o
    encodeWord64(ToWord(energy, 8), FALSE) \o
    ToWord(payloadSize, 4) \o
    encodeWord64(header.expiry.expiryEpochSeconds, FALSE)

serializeCredentialSignatures(keys) ==
    LET ks == SortedSeq(DOMAIN keys) IN
    <<Len(ks)>> \o
    Flatten([i \in 1..Len(ks) |->
                <<ks[i]>> \o packBufferWithWord16Length(fromHex(keys[ks[i]]), FALSE)])

serializeAccountTransactionSignature(signatures) ==
    LET cs == SortedSeq(DOMAIN signatures) IN
    <<Len(cs)>> \o
    Flatten([i \in 1..Len(cs) |->
                <<cs[i]>> \o serializeCredentialSignatures(signatures[cs[i]])])

\* version 0, block item kind 0, the signatures, the header, the payload
serializeAccountTransactionForSubmission(transaction, signatures) ==
    LET payload == serializeAccountTransactionPayload(transaction) IN
    <<0>> \o <<0>> \o
    serializeAccountTransactionSignature(signatures) \o
    serializeAccountTransactionHeader(transaction.header, Len(payload),
                                      energyCost(transaction, signatures)) \o
    payload

RECURSIVE deserializeKeySignatures(_, _)
deserializeKeySignatures(cursor, n) ==
    LET Put(k, sg, rest) ==
            IF ~rest.ok THEN rest
            ELSE Ok(rest.val @@ (k.val[1] :> toHex(sg.val)), rest.cur)
        Sig_(k, sg) ==
            IF ~sg.ok THEN sg
            ELSE Put(k, sg, deserializeKeySignatures(sg.cur, n - 1))
        Len_(k, l) ==
            IF ~l.ok THEN l ELSE Sig_(k, Read(l.cur, readUInt16BE(l.val)))
        Key_(k) ==
            IF ~k.ok THEN k ELSE Len_(k, Read(k.cur, 2))
    IN  IF n = 0 THEN Ok(<<>>, cursor) ELSE Key_(Read(cursor, 1))

RECURSIVE deserializeCredentialSignatures(_, _)
deserializeCredentialSignatures(cursor, n) ==
    LET Put(c, keys, rest) ==
            IF ~rest.ok THEN rest
            ELSE Ok(rest.val @@ (c.val[1] :> keys.val), rest.cur)
        Keys_(c, keys) ==
            IF ~keys.ok THEN keys
            ELSE Put(c, keys, deserializeCredentialSignatures(keys.cur, n - 1))
        Count_(c, kn) ==
            IF ~kn.ok THEN kn
            ELSE Keys_(c, deserializeKeySignatures(kn.cur, kn.val[1]))
        Cred_(c) ==
            IF ~c.ok THEN c ELSE Count_(c, Read(c.cur, 1))
    IN  IF n = 0 THEN Ok(<<>>, cursor) ELSE Cred_(Read(cursor, 1))

deserializeAccountTransactionSignature(cursor) ==
    LET Count_(n) ==
            IF ~n.ok THEN n ELSE deserializeCredentialSignatures(n.cur, n.val[1])
    IN  Count_(Read(cursor, 1))

deserializeTransferWithMemoAmountFirst(cursor) ==
    LET Memo_(to, a, m) ==
            IF ~m.ok THEN m
            ELSE Ok([toAddress |-> [decodedAddress |-> to.val], memo |-> m.val,
                     amount |-> a.val], m.cur)
        Len_(to, a, l) ==
            IF ~l.ok THEN l ELSE Memo_(to, a, Read(l.cur, readUInt16BE(l.val)))
        Amount_(to, a) ==
            IF ~a.ok THEN a ELSE Len_(to, a, Read(a.cur, 2))
        To_(to) ==
            IF ~to.ok THEN to ELSE Amount_(to, Read(to.cur, 8))
    IN  To_(Read(cursor, 32))

\* The receiver, the memo behind its 2-byte length, the amount.
deserializeTransferWithMemo(cursor) ==
    LET Amount_(to, m, a) ==
            IF ~a.ok THEN a
            ELSE Ok([toAddress |-> [decodedAddress |-> to.val], memo |-> m.val,
                     amount |-> a.val], a.cur)
        Memo_(to, m) ==
            IF ~m.ok THEN m ELSE Amount_(to, m, Read(m.cur, 8))
        Len_(to, l) ==
            IF ~l.ok THEN l ELSE Memo_(to, Read(l.cur, readUInt16BE(l.val)))
        To_(to) ==
            IF ~to.ok THEN to ELSE Len_(to, Read(to.cur, 2))
    IN  To_(Read(cursor, 32))

deserializeTransfer(cursor) ==
    LET Amount_(to, a) ==
            IF ~a.ok THEN a
            ELSE Ok([toAddress |-> [decodedAddress |-> to.val],
                     amount |-> a.val], a.cur)
        To_(to) ==
            IF ~to.ok THEN to ELSE Amount_(to, Read(to.cur, 8))
    IN  To_(Read(cursor, 32))

deserializeRegisterData(cursor) ==
    LET Data_(d) ==
            IF ~d.ok THEN d ELSE Ok([data |-> d.val], d.cur)
        Len_(l) ==
            IF ~l.ok THEN l ELSE Data_(Read(l.cur, readUInt16BE(l.val)))
    IN  Len_(Read(cursor, 2))

deserializePayloadAnyKind(type, cursor) ==
    CASE type = "Transfer" -> deserializeTransfer(cursor)
      [] type = "TransferWithMemo" -> deserializeTransferWithMemo(cursor)
      [] type = "RegisterData" -> deserializeRegisterData(cursor)
      [] OTHER -> Ok([raw |-> Drop(cursor.data, cursor.pos)],
                     [cursor EXCEPT !.pos = Len(cursor.data)])

\* The payload of a kind, or an error for a kind outside the supported ones.
deserializePayload(type, cursor) ==
    CASE type = "Transfer" -> deserializeTransfer(cursor)
      [] type = "TransferWithMemo" -> deserializeTransferWithMemo(cursor)
      [] type = "RegisterData" -> deserializeRegisterData(cursor)
      [] OTHER -> Err("UnsupportedTransactionKindError")

deserializeAccountTransactionHeaderNonceLE(cursor) ==
    LET Rest_(sender, nonce, rest) ==
            IF ~rest.ok THEN rest
            ELSE Ok([sender |-> [decodedAddress |-> sender.val],
                     nonce |-> Reverse(nonce.val),
                     expiry |-> [expiryEpochSeconds |-> Drop(rest.val, 12)]],
                    rest.cur)
        Nonce_(sender, nonce) ==
            IF ~nonce.ok THEN nonce
            ELSE Rest_(sender, nonce, Read(nonce.cur, 8 + 4 + 8))
        Sender_(sender) ==
            IF ~sender.ok THEN sender ELSE Nonce_(sender, Read(sender.cur, 8))
    IN  Sender_(Read(cursor, 32))

\* The energy and the payload size are read and dropped: a header holds the
\* sender, the nonce and the expiry.
deserializeAccountTransactionHeader(cursor) ==
    LET Expiry_(sender, nonce, expiry) ==
            IF ~expiry.ok THEN expiry
            ELSE Ok([sender |-> [decodedAddress |-> sender.val],
                     nonce |-> nonce.val,
                     expiry |-> [expiryEpochSeconds |-> expiry.val]],
                    expiry.cur)
        PayloadSize_(sender, nonce, payloadSize) ==
            IF ~payloadSize.ok THEN payloadSize
            ELSE Expiry_(sender, nonce, Read(payloadSize.cur, 8))
        Energy_(sender, nonce, energyAmount) ==
            IF ~energyAmount.ok THEN energyAmount
            ELSE PayloadSize_(sender, nonce, Read(energyAmount.cur, 4))
        Nonce_(sender, nonce) ==
            IF ~nonce.ok THEN nonce
            ELSE Energy_(sender, nonce, Read(nonce.cur, 8))
        Sender_(sender) ==
            IF ~sender.ok THEN sender ELSE Nonce_(sender, Read(sender.cur, 8))
    IN  Sender_(Read(cursor, 32))

\* The signatures, the header, the kind tag, the payload.
deserializeAccountTransaction(cursor) ==
    LET Payload_(sg, header, type, payload) ==
            IF ~payload.ok THEN payload
            ELSE Ok([accountTransaction |->
                         [header |-> header.val,
                          type |-> type,
                          payload |-> payload.val],
                     signatures |-> sg.val], payload.cur)
        Type_(sg, header, tag, type) ==
            Payload_(sg, header, type, deserializePayload(type, tag.cur))
        Tag_(sg, header, tag) ==
            IF ~tag.ok THEN tag
            ELSE Type_(sg, header, tag, TagType(tag.val[1]))
        Header_(sg, header) ==
            IF ~header.ok THEN header
            ELSE Tag_(sg, header, Read(header.cur, 1))
        Signatures_(sg) ==
            IF ~sg.ok THEN sg
            ELSE Header_(sg, deserializeAccountTransactionHeader(sg.cur))
    IN  Signatures_(deserializeAccountTransactionSignature(cursor))

\* Version 0 and block item kind 0 (an account transaction) are accepted.
deserializeTransaction(serializedTransaction) ==
    LET Transaction_(t) ==
            IF ~t.ok THEN t
            ELSE Ok([kind |-> "AccountTransactionKind", transaction |-> t.val],
                    t.cur)
        Kind_(kind) ==
            IF ~kind.ok THEN kind
            ELSE IF kind.val[1] # 0 THEN Err("UnsupportedBlockItemKind")
            ELSE Transaction_(deserializeAccountTransaction(kind.cur))
        Version_(version) ==
            IF ~version.ok THEN version
            ELSE IF version.val[1] # 0 THEN Err("UnsupportedVersion")
            ELSE Kind_(Read(version.cur, 1))
    IN  Version_(Read(Cursor(serializedTransaction), 1))

-----------------------------------------------------------------------------
(* The schema-driven value codec *)

\* Numerals: a sequence of digits in some base, most significant first.
\* One step of long division of a numeral by a small divisor d.
RECURSIVE LongDiv(_, _, _, _, _)
LongDiv(digits, base, d, r, q) ==
    IF digits = <<>> THEN [q |-> q, r |-> r]
    ELSE LongDiv(Tail(digits), base, d,
                 (r * base + Head(digits)) % d,
                 Append(q, (r * base + Head(digits)) \div d))

IsZero(digits) == \A i \in 1..Len(digits) : digits[i] = 0

\* The n least significant digits, least significant first, of a numeral
\* written in another base.
RECURSIVE Convert(_, _, _, _)
Convert(digits, from, to, n) ==
    LET Step(dv) == <<dv.r>> \o Convert(dv.q, from, to, n - 1)
    IN  IF n = 0 THEN <<>> ELSE Step(LongDiv(digits, from, to, 0, <<>>))

\* The digits of a numeral in another base, least significant first, as many
\* as it takes (one digit for zero).
RECURSIVE ConvertAll(_, _, _)
ConvertAll(digits, from, to) ==
    LET Step(dv) ==
            IF IsZero(dv.q) THEN <<dv.r>>
            ELSE <<dv.r>> \o ConvertAll(dv.q, from, to)
    IN  Step(LongDiv(digits, from, to, 0, <<>>))

\* A JSON string is [str |-> code points]; '0' is 48 and '-' is 45.
DecimalString(digits, negative) ==
    [str |-> (IF negative THEN <<45>> ELSE <<>>) \o
             [i \in 1..Len(digits) |-> 48 + digits[i]]]

IsNegative(value) == value.str # <<>> /\ value.str[1] = 45

DecimalDigits(value) ==
    LET cs == IF IsNegative(value) THEN Tail(value.str) ELSE value.str IN
    [i \in 1..Len(cs) |-> cs[i] - 48]

\* Two's complement of a little-endian byte numeral.
RECURSIVE AddOne(_)
AddOne(le) ==
    IF le = <<>> THEN <<>>
    ELSE IF Head(le) = 255 THEN <<0>> \o AddOne(Tail(le))
    ELSE <<Head(le) + 1>> \o Tail(le)

Negate(le) == AddOne([i \in 1..Len(le) |-> 255 - le[i]])

\* An integer of at most 32 bits is a JSON number, a wider one a decimal
\* string; both are written little-endian in two's complement.
encodeInt(S, V) ==
    IF S.width <= 4
    THEN [i \in 1..S.width |-> (V \div (256 ^ (i - 1))) % 256]
    ELSE LET magnitude == Convert(DecimalDigits(V), 10, 256, S.width) IN
         IF IsNegative(V) THEN Negate(magnitude) ELSE magnitude

\* Mutant of decodeIntSmall: the sign bit counts as a value bit.
decodeIntSmallUnsigned(S, bytes) ==
    SumSeq([i \in 1..S.width |-> bytes[i] * (256 ^ (i - 1))])

decodeIntSmall(S, bytes) ==
    LET top == IF S.signed /\ bytes[S.width] >= 128 THEN bytes[S.width] - 256
               ELSE bytes[S.width]
        low == [i \in 1..(S.width - 1) |-> bytes[i] * (256 ^ (i - 1))] IN
    top * (256 ^ (S.width - 1)) + SumSeq(low)

decodeIntWideUnsigned(S, bytes) ==
    DecimalString(Reverse(ConvertAll(Reverse(bytes), 256, 10)), FALSE)

\* The decimal string of a wide integer, with its sign.
decodeIntWide(S, bytes) ==
    LET negative == S.signed /\ bytes[S.width] >= 128
        magnitude == IF negative THEN Negate(bytes) ELSE bytes IN
    DecimalString(Reverse(ConvertAll(Reverse(magnitude), 256, 10)), negative)

decodeInt(S, cursor) ==
    LET Bytes_(b) ==
            IF ~b.ok THEN b
            ELSE Ok(IF S.width <= 4 THEN decodeIntSmall(S, b.val)
                    ELSE decodeIntWide(S, b.val), b.cur)
    IN  Bytes_(Read(cursor, S.width))

\* Unsigned LEB128: groups of seven bits, least significant first, every
\* byte but the last with its high bit set.
encodeULeb128(S, V) ==
    LET groups == ConvertAll(DecimalDigits(V), 10, 128) IN
    [i \in 1..Len(groups) |->
        IF i < Len(groups) THEN 128 + groups[i] ELSE groups[i]]

RECURSIVE decodeULeb128Groups(_, _, _)
decodeULeb128Groups(cursor, left, groups) ==
    LET Byte_(b) ==
            IF ~b.ok THEN b
            ELSE IF b.val[1] < 128
                 THEN Ok(<<b.val[1]>> \o groups, b.cur)
            ELSE decodeULeb128Groups(b.cur, left - 1,
                                     <<b.val[1] - 128>> \o groups)
    IN  IF left = 0 THEN Err("DecodingError") ELSE Byte_(Read(cursor, 1))

decodeULeb128(S, cursor) ==
    LET Groups_(g) ==
            IF ~g.ok THEN g
            ELSE Ok(DecimalString(Reverse(ConvertAll(g.val, 128, 10)), FALSE),
                    g.cur)
    IN  Groups_(decodeULeb128Groups(cursor, S.maxBytes, <<>>))

\* A length or count prefix: 1, 2 or 4 bytes, little-endian.
encodePrefix(n, width) == [i \in 1..width |-> (n \div (256 ^ (i - 1))) % 256]

decodePrefix(bytes) ==
    SumSeq([i \in 1..Len(bytes) |-> bytes[i] * (256 ^ (i - 1))])

\* Strict UTF-8 of code points below 0x800.
RECURSIVE Utf8Valid(_)
Utf8Valid(bs) ==
    IF bs = <<>> THEN TRUE
    ELSE IF Head(bs) < 128 THEN Utf8Valid(Tail(bs))
    ELSE /\ Head(bs) >= 194
         /\ Head(bs) < 224
         /\ Len(bs) >= 2
         /\ bs[2] >= 128
         /\ bs[2] < 192
         /\ Utf8Valid(Drop(bs, 2))

VariantIndex(S, V) ==
    CHOOSE i \in 1..Len(S.variants) : S.variants[i].name \in DOMAIN V

DiscriminantWidth(S) == IF Len(S.variants) <= 256 THEN 1 ELSE 2

\* The bytes of a value under a schema node: the concatenation of the bytes
\* of its parts, in schema order.
RECURSIVE encodeValue(_, _)
encodeValue(S, V) ==
    CASE S.k = "int" -> encodeInt(S, V)
      [] S.k = "uleb128" -> encodeULeb128(S, V)
      [] S.k = "bool" -> IF V THEN <<1>> ELSE <<0>>
      [] S.k = "unit" -> <<>>
      [] S.k = "array" ->
            Flatten([i \in 1..S.n |-> encodeValue(S.of, V[i])])
      [] S.k = "list" ->
            encodePrefix(Len(V), S.prefix) \o
            Flatten([i \in 1..Len(V) |-> encodeValue(S.of, V[i])])
      [] S.k = "tuple" ->
            Flatten([i \in 1..Len(S.types) |-> encodeValue(S.types[i], V[i])])
      [] S.k = "struct" ->
            Flatten([i \in 1..Len(S.fields) |->
                        encodeValue(S.fields[i].type, V[S.fields[i].name])])
      [] S.k = "enum" ->
            encodePrefix(VariantIndex(S, V) - 1, DiscriminantWidth(S)) \o
            encodeValue(S.variants[VariantIndex(S, V)].fields,
                        V[S.variants[VariantIndex(S, V)].name])
      [] S.k = "string" ->
            encodePrefix(Len(Utf8Encode(V.str)), S.prefix) \o Utf8Encode(V.str)
      [] S.k = "option" ->
            IF "None" \in DOMAIN V THEN <<0>>
            ELSE <<1>> \o encodeValue(S.of, V["Some"][1])
      [] S.k = "map" ->
            encodePrefix(Len(V), S.prefix) \o
            Flatten([i \in 1..Len(V) |->
                        encodeValue(S.key, V[i][1]) \o
                        encodeValue(S.value, V[i][2])])
      [] S.k = "Amount" ->
            Convert(DecimalDigits(V), 10, 256, 8)

\* A struct's value: its fields by name.
StructValue(S, vals) ==
    [f \in {S.fields[i].name : i \in 1..Len(S.fields)} |->
        vals[CHOOSE i \in 1..Len(S.fields) : S.fields[i].name = f]]

decodeEnumFirstBased(S, disc) ==
    IF disc > Len(S.variants) \/ disc = 0 THEN Err("UnknownVariantError")
    ELSE Ok(disc, <<>>)

\* The variant a discriminant selects, counted from 1 in S.variants.
decodeEnumVariant(S, disc) ==
    IF disc >= Len(S.variants) THEN Err("UnknownVariantError")
    ELSE Ok(disc + 1, <<>>)

RECURSIVE decodeValue(_, _)
RECURSIVE decodeMany(_, _)
RECURSIVE decodeTimes(_, _, _)

\* n values of one type, one after the other.
decodeTimes(of, n, cursor) ==
    LET Rest_(v, rest) ==
            IF ~rest.ok THEN rest ELSE Ok(<<v.val>> \o rest.val, rest.cur)
        First_(v) ==
            IF ~v.ok THEN v ELSE Rest_(v, decodeTimes(of, n - 1, v.cur))
    IN  IF n = 0 THEN Ok(<<>>, cursor) ELSE First_(decodeValue(of, cursor))

\* One value of each type, one after the other.
decodeMany(types, cursor) ==
    LET Rest_(v, rest) ==
            IF ~rest.ok THEN rest ELSE Ok(<<v.val>> \o rest.val, rest.cur)
        First_(v) ==
            IF ~v.ok THEN v ELSE Rest_(v, decodeMany(Tail(types), v.cur))
    IN  IF types = <<>> THEN Ok(<<>>, cursor)
        ELSE First_(decodeValue(Head(types), cursor))

decodeValue(S, cursor) ==
    LET Counted_(n, of) ==
            IF ~n.ok THEN n ELSE decodeTimes(of, decodePrefix(n.val), n.cur)
        Struct_(vals) ==
            IF ~vals.ok THEN vals ELSE Ok(StructValue(S, vals.val), vals.cur)
        Fields_(i, v) ==
            IF ~v.ok THEN v ELSE Ok(S.variants[i].name :> v.val, v.cur)
        Variant_(d, i) ==
            IF ~i.ok THEN i
            ELSE Fields_(i.val, decodeValue(S.variants[i.val].fields, d.cur))
        Disc_(d) ==
            IF ~d.ok THEN d ELSE Variant_(d, decodeEnumVariant(S, decodePrefix(d.val)))
        Text_(b) ==
            IF ~b.ok THEN b
            ELSE IF ~Utf8Valid(b.val) THEN Err("DecodingError")
            ELSE Ok([str |-> Utf8Decode(b.val)], b.cur)
        TextLen_(n) ==
            IF ~n.ok THEN n ELSE Text_(Read(n.cur, decodePrefix(n.val)))
        Some_(v) ==
            IF ~v.ok THEN v ELSE Ok("Some" :> <<v.val>>, v.cur)
        Flag_(f) ==
            IF ~f.ok THEN f
            ELSE IF f.val[1] = 0 THEN Ok("None" :> <<>>, f.cur)
            ELSE IF f.val[1] = 1 THEN Some_(decodeValue(S.of, f.cur))
            ELSE Err("InvalidTagError")
        Bool_(b) ==
            IF ~b.ok THEN b
            ELSE IF b.val[1] > 1 THEN Err("InvalidBooleanError")
            ELSE Ok(b.val[1] = 1, b.cur)
        Amount_(b) ==
            IF ~b.ok THEN b
            ELSE Ok(DecimalString(Reverse(ConvertAll(Reverse(b.val), 256, 10)),
                                  FALSE), b.cur)
    IN  CASE S.k = "int" -> decodeInt(S, cursor)
          [] S.k = "uleb128" -> decodeULeb128(S, cursor)
          [] S.k = "bool" -> Bool_(Read(cursor, 1))
          [] S.k = "unit" -> Ok(<<>>, cursor)
          [] S.k = "array" -> decodeTimes(S.of, S.n, cursor)
          [] S.k = "list" -> Counted_(Read(cursor, S.prefix), S.of)
          [] S.k = "tuple" -> decodeMany(S.types, cursor)
          [] S.k = "struct" ->
                Struct_(decodeMany([i \in 1..Len(S.fields) |-> S.fields[i].type],
                                   cursor))
          [] S.k = "enum" -> Disc_(Read(cursor, DiscriminantWidth(S)))
          [] S.k = "string" -> TextLen_(Read(cursor, S.prefix))
          [] S.k = "option" -> Flag_(Read(cursor, 1))
          [] S.k = "map" ->
                Counted_(Read(cursor, S.prefix),
                         [k |-> "tuple", types |-> <<S.key, S.value>>])
          [] S.k = "Amount" -> Amount_(Read(cursor, 8))

\* serializeTypeValue / deserializeTypeValue: a value under a type schema.
serializeTypeValue(value, rawSchema) == encodeValue(rawSchema, value)

deserializeTypeValue(value, rawSchema) == decodeValue(rawSchema, Cursor(value))

\* The state schema of a contract of a module schema, then the state.
deserializeContractState(contractName, schema, state) ==
    IF contractName \notin DOMAIN schema THEN Err("UnknownContractError")
    ELSE decodeValue(schema[contractName].state, Cursor(state))

\* The function schema of a receive function of a contract of a module
\* schema.
LocateReceive(moduleSchema, contractName, receiveFunctionName) ==
    IF contractName \notin DOMAIN moduleSchema
    THEN Err("UnknownContractError")
    ELSE IF receiveFunctionName \notin DOMAIN moduleSchema[contractName].receive
    THEN Err("UnknownEntrypointError")
    ELSE [ok |-> TRUE,
          val |-> moduleSchema[contractName].receive[receiveFunctionName]]

deserializeReceiveReturnValue(returnValueBytes, moduleSchema, contractName, functionName) ==
    LET Found_(f) ==
            IF ~f.ok THEN f
            ELSE decodeValue(f.val.returnValue, Cursor(returnValueBytes))
    IN  Found_(LocateReceive(moduleSchema, contractName, functionName))

\* Mutant of deserializeReceiveError: the return-value schema is taken.
deserializeReceiveErrorAsReturnValue(errorBytes, moduleSchema, contractName, functionName) ==
    deserializeReceiveReturnValue(errorBytes, moduleSchema, contractName,
                                  functionName)

deserializeReceiveError(errorBytes, moduleSchema, contractName, functionName) ==
    LET Found_(f) ==
            IF ~f.ok THEN f
            ELSE decodeValue(f.val.error, Cursor(errorBytes))
    IN  Found_(LocateReceive(moduleSchema, contractName, functionName))

deserializeInitError(errorBytes, moduleSchema, contractName) ==
    IF contractName \notin DOMAIN moduleSchema
    THEN Err("UnknownContractError")
    ELSE decodeValue(moduleSchema[contractName].init.error, Cursor(errorBytes))

-----------------------------------------------------------------------------
(* Signing digests *)

\* A hash is held as its preimage: equal digests have equal preimages.
sha256(preimage) == [sha256 |-> preimage]

rawMessageLatin1(message) ==
    IF HasField(message, "str") THEN [i \in 1..Len(message.str) |-> message.str[i] % 256]
    ELSE message.bytes

\* A message is a string ([str |-> code points]) or bytes ([bytes |-> ...]).
rawMessage(message) ==
    IF HasField(message, "str") THEN Utf8Encode(message.str) ELSE message.bytes

getMessageDigestNoPadding(account, message) ==
    sha256(account.decodedAddress \o rawMessage(message))

\* The address, eight zero bytes, the message.
getMessageDigest(account, message) ==
    sha256(account.decodedAddress \o Zeros(8) \o rawMessage(message))

\* The bytes hashed to sign a transaction: the header, then the payload.
getAccountTransactionSignDigest(transaction, signatureCount) ==
    LET payload == serializeAccountTransactionPayload(transaction)
        energy == calculateEnergyCost(signatureCount, Len(payload),
                                      getBaseEnergyCost(transaction.type)) IN
    sha256(serializeAccountTransactionHeader(transaction.header, Len(payload),
                                             energy) \o payload)

\* An Ed25519 signature is held as the pair it binds.
getSignature(digest, signKey) == [digest |-> digest, key |-> signKey]

signMessage(account, message, signKey) ==
    getSignature(getMessageDigest(account, message), signKey)

\* accountInfo: the account's address and the key that signs for it.
verifyMessageSignature(message, signature, accountInfo) ==
    LET digest == getMessageDigest(accountInfo.accountAddress, message) IN
    [digest |-> digest,
     valid |-> signature = getSignature(digest, accountInfo.key)]

-----------------------------------------------------------------------------
(* Sampled inputs of the CIS decoders *)

Key(k) == toHex(Fill(32, k))

SampleMetadataUrls ==
    {[url |-> <<>>], [url |-> <<104, 233>>, hash |-> toHex(Fill(32, 5))]}

SampleCredentialInfos ==
    {[holderPubKey |-> Key(17),
      holderRevocable |-> r,
      validFrom |-> [ms |-> ToWord(1000, 8)],
      validUntil |-> u,
      metadataUrl |-> m] :
        r \in BOOLEAN,
        u \in {Undefined, [ms |-> ToWord(70000, 8)]},
        m \in SampleMetadataUrls}

SampleCredentialEntries ==
    {[credentialInfo |-> ci,
      schemaRef |-> [url |-> <<115>>],
      revocationNonce |-> ToWord(7, 8)] : ci \in SampleCredentialInfos}

SampleMetadataResponses ==
    {[issuerMetadata |-> m,
      credentialType |-> <<84, 233>>,
      credentialSchema |-> [url |-> <<115>>]] : m \in SampleMetadataUrls}

SampleRevocationKeys ==
    {[key |-> Key(k), nonce |-> ToWord(258, 8)] : k \in {3, 200}}

serializeCIS4RevocationKey(k) == fromHex(k.key) \o encodeWord64(k.nonce, TRUE)

SampleAddress(i) == [index |-> ToWord(1233 + i, 8), subindex |-> ToWord(i - 1, 8)]

AddressBytes(n) ==
    Flatten([i \in 1..n |-> encodeWord64(SampleAddress(i).index, TRUE) \o
                            encodeWord64(SampleAddress(i).subindex, TRUE)])

\* Signing data of a revocation: entrypoint names as ASCII codes.
SampleSigningData ==
    {[contractAddress |-> SampleAddress(a), entrypoint |-> e,
      nonce |-> n, timestamp |-> [ms |-> ToWord(1700000000, 8)]] :
        a \in {1, 2},
        e \in {<<114, 101, 118, 111, 107, 101>>, <<114>>},
        n \in {ToWord(0, 8), ToWord(1, 8), ToWord(258, 8)}}

SampleReasons == {Undefined, [str |-> <<111, 108, 100>>]}

SampleRevocationData ==
    {[credentialPubKey |-> Key(7), signingData |-> d, reason |-> r] :
        d \in SampleSigningData, r \in SampleReasons}

\* Block hash arguments: omitted, empty, two valid hashes, and strings that
\* are too short, too long, of odd length or not all hex digits.
SampleBlockHashes ==
    {[given |-> FALSE]} \cup
    {[given |-> TRUE, str |-> h] :
        h \in {<<>>, toHex(Fill(32, 171)), toHex(Fill(31, 1) \o <<254>>),
               toHex(Fill(31, 171)), toHex(Fill(33, 171)),
               Fill(63, 10), Fill(65, 10), <<10, 11>>, <<0>>, <<NotHex>>,
               [toHex(Fill(32, 171)) EXCEPT ![64] = NotHex],
               [toHex(Fill(32, 171)) EXCEPT ![1] = NotHex]}}

\* Invokers: none, two accounts, contracts with index 0 and above, and an
\* object that is neither.
SampleInvokers ==
    {[undefined |-> TRUE], [credId |-> <<1, 2>>]}
        \cup {[decodedAddress |-> Fill(32, b)] : b \in {0, 7}}
        \cup {[index |-> i, subindex |-> j] : i \in {0, 1, 2101}, j \in {0, 42}}

\* Numbers given as milliseconds: whole ones on both sides of zero, -0.5,
\* 0.5 and NaN.
SampleMillis ==
    {Integer(n) : n \in {0 - 86400000, 0 - 1, 0, 1, 1500, 86400000}}
        \cup {[kind |-> "fraction", floor |-> 0 - 1],
              [kind |-> "fraction", floor |-> 0], [kind |-> "NaN"]}

\* Duration strings: well formed ones, ones with a minus sign, and ones the
\* format does not allow.
SampleDurationStrings ==
    {<<"1", "0", "d", " ", "1", "h", " ", "2", "m", " ", "7", "s">>,
     <<"5", "m", "s">>,
     <<"0", "m", "s">>,
     <<"1", "s", " ", "1", "s">>,
     <<"1", "d", " ", "1", "m", "s">>,
     <<"2", "h">>,
     <<"-", "5", "m", "s">>,
     <<"-", "1", "s", " ", "2", "s">>,
     <<"5", " ", "m", "s">>,
     <<>>,
     <<"1", "s", " ", " ", "2", "s">>,
     <<"5">>,
     <<"m", "s">>,
     <<"5", "x">>,
     <<"1", ".", "5", "s">>}

\* Durations and timestamps as protobuf gives them.
SampleProtoValues == {[value |-> n] : n \in {0 - 1500, 0 - 1, 0, 5, 1500}}

\* Dates: at, after and before 1 January 1970 UTC, and the invalid Date.
SampleDates ==
    {[time |-> Integer(n)] : n \in {0 - 86400000, 0 - 1, 0, 1500}}
        \cup {[time |-> [kind |-> "NaN"]]}

\* Date strings before 1 January 1970 UTC.
BeforeEpoch == {"1969-12-31T23:59:59.999Z", "1969-01-01T00:00:00.000Z"}

SampleDateStrings ==
    BeforeEpoch \cup {"1970-01-01T00:00:00.000Z", "1970-01-01T00:00:01.500Z",
                      "1970-01-02T00:00:00.000Z", "not a date", ""}

\* Typed JSON of a timestamp and of another type.
SampleTypedJson ==
    {[type |-> t, value |-> v] :
        t \in {JSON_DISCRIMINATOR, "ccd_duration"},
        v \in {<<"1", "5", "0", "0">>,
              <<"0">>,
              <<"-", "5">>,
              <<"-", "1", "5", "0", "0">>,
              <<>>,
              <<"a", "b", "c">>,
              <<"-">>,
              <<"1", ".", "5">>}}

\* The most decode calls in progress at once.
MaxCalls == 2

\* What the calls in progress decode: two entries, an entry cut short and
\* three list responses, one of them with an unsupported type.
SampleConcurrentCalls ==
    LET a == [credentialInfo |->
                  [holderPubKey |-> Key(17), holderRevocable |-> TRUE,
                   validFrom |-> [ms |-> ToWord(1000, 8)],
                   validUntil |-> [ms |-> ToWord(70000, 8)],
                   metadataUrl |-> [url |-> <<104, 233>>,
                                    hash |-> toHex(Fill(32, 5))]],
              schemaRef |-> [url |-> <<115>>],
              revocationNonce |-> ToWord(7, 8)]
        b == [credentialInfo |->
                  [holderPubKey |-> Key(18), holderRevocable |-> FALSE,
                   validFrom |-> [ms |-> ToWord(2000, 8)],
                   validUntil |-> Undefined,
                   metadataUrl |-> [url |-> <<>>]],
              schemaRef |-> [url |-> <<116>>],
              revocationNonce |-> ToWord(8, 8)]
    IN  {[fun |-> "deserializeCIS4CredentialEntry",
          value |-> toHex(serializeCIS4CredentialEntry(a))],
         [fun |-> "deserializeCIS4CredentialEntry",
          value |-> toHex(serializeCIS4CredentialEntry(b))],
         [fun |-> "deserializeCIS4CredentialEntry",
          value |-> toHex(Take(serializeCIS4CredentialEntry(a), 45))],
         [fun |-> "deserializeSupportResult", value |-> toHex(<<1, 0>>)],
         [fun |-> "deserializeSupportResult",
          value |-> toHex(<<2, 1>> \o AddressBytes(1) \o <<0>>)],
         [fun |-> "deserializeSupportResult", value |-> toHex(<<1, 3>>)]}

\* The most elements in a sampled list response.
MaxListLen == 3

SeqsUpTo(S, n) == UNION {[1..k -> S] : k \in 0..n}

SampleSupportResults ==
    {[type |-> 0], [type |-> 1],
     [type |-> 2, addresses |-> <<>>],
     [type |-> 2, addresses |-> <<SampleAddress(1), SampleAddress(2)>>]}

\* The bytes of one support result: the type and, for support by other
\* contracts, a 1-byte count and the addresses.
serializeSupportResultItem(r) ==
    IF r.type < 2 THEN <<r.type>>
    ELSE <<2, Len(r.addresses)>> \o
         Flatten([i \in 1..Len(r.addresses) |->
                     encodeWord64(r.addresses[i].index, TRUE) \o
                     encodeWord64(r.addresses[i].subindex, TRUE)])

ItemBytes(deserializer, item) ==
    IF deserializer = "deserializeCIS4RevocationKey"
    THEN serializeCIS4RevocationKey(item)
    ELSE serializeSupportResultItem(item)

ListBytes(deserializer, items) ==
    Flatten([i \in 1..Len(items) |-> ItemBytes(deserializer, items[i])])

\* Identifiers "CIS-0", "CIS-2", "CIS-4": one of them, or a list of none to MaxListLen of them.
SampleStandardIdArgs ==
    {[isArray |-> FALSE, id |-> id] : id \in {<<67, 73, 83, 45, 48>>}} \cup
    {[isArray |-> TRUE, ids |-> ids] :
        ids \in {<<>>, <<<<67, 73, 83, 45, 48>>>>,
                 <<<<67, 73, 83, 45, 50>>, <<67, 73, 83, 45, 48>>>>,
                 <<<<67, 73, 83, 45, 52>>, <<67, 73, 83, 45, 48>>,
                   <<67, 73, 83, 45, 50>>>>}}

\* Instances of the contract "a" ("init_a"), with the methods "a.supports",
\* "a.view" and "b.supports" in or not in the list.
SampleInstanceInfos ==
    {[name |-> <<105, 110, 105, 116, 95, 97>>, methods |-> ms] :
        ms \in SUBSET {<<97>> \o DotSupports, <<97, 46, 118, 105, 101, 119>>,
                       <<98>> \o DotSupports}}

\* What invokeContract answers: nothing, a failure, a success without a
\* return value, or a success with the results the contract wrote.
SampleInvokeResponses ==
    {Undefined, [tag |-> "failure", reason |-> "rejected"], [tag |-> "success"]}
    \cup
    {[tag |-> "success", items |-> items,
      returnValue |-> toHex(ListBytes("deserializeSupportResultItem", items))] :
        items \in SeqsUpTo({[type |-> 0], [type |-> 1],
                            [type |-> 2, addresses |-> <<SampleAddress(1)>>]},
                           MaxListLen)}
    \cup
    {[tag |-> "success", returnValue |-> toHex(<<1, 3>>)]}

\* Presence-flag bytes tried in place of 0 and 1.
OtherFlags == {2, 255}

\* 1-based offset of the validUntil presence flag in a credential info:
\* after the 32-byte key, the 1-byte holderRevocable and the 8-byte validFrom.
ValidUntilFlagAt == 32 + 1 + 8 + 1

\* 1-based offset of the holderRevocable byte, after the 32-byte key.
HolderRevocableAt == 32 + 1

\* Bytes tried in place of the 0 and 1 of a boolean.
OtherBools == {2, 128, 255}

\* Bytes appended behind the bytes of a value.
SampleTrailing == {<<0>>, <<1, 2>>}

-----------------------------------------------------------------------------
(* Sampled transactions, signatures and messages *)

Addr(k) == [decodedAddress |-> Fill(32, k)]

SampleAccounts == {Addr(49), Addr(50)}

\* Nonce 0 (the header of the deserialization tests), 1 and 2^64 - 1.
SampleNonces == {ToWord(0, 8), ToWord(1, 8), Fill(8, 255)}

\* 1 February 2000 (expired) and 1 January 2030, in epoch seconds.
SampleExpiries ==
    {[expiryEpochSeconds |-> ToWord(949359600, 8)],
     [expiryEpochSeconds |-> ToWord(1893456000, 8)]}

SamplePayloads(type) ==
    CASE type = "Transfer" ->
            {[toAddress |-> Addr(49), amount |-> ToWord(5100000, 8)]}
      [] type = "TransferWithMemo" ->
            {[toAddress |-> Addr(49), amount |-> ToWord(5100000, 8), memo |-> m] :
                m \in {<<0>>, <<>>}}
      [] type = "RegisterData" ->
            {[data |-> <<0, 171, 83, 3, 146, 104, 16, 238>>]}
      [] type = "ConfigureDelegation" ->
            {[stake |-> ToWord(0, 8)]}

SampleTransactions ==
    UNION {{[header |-> [sender |-> s, nonce |-> n, expiry |-> e],
             type |-> t,
             payload |-> p] :
                s \in SampleAccounts, n \in SampleNonces, e \in SampleExpiries,
                p \in SamplePayloads(t)} : t \in SerializableKinds}

Sig(k) == toHex(Fill(64, k))

SampleSignatures ==
    {0 :> (0 :> Sig(120)),
     (0 :> ((0 :> Sig(120)) @@ (2 :> Sig(7)))) @@ (1 :> (0 :> Sig(9)))}

SampleMessages ==
    {[str |-> <<116, 233>>], [str |-> <<>>], [bytes |-> <<0, 255>>]}

KeyOf(account) == [owner |-> account.decodedAddress]

\* What is changed in a submission blob before it is deserialized.
Tampers == {"none", "energy", "payloadSize", "trailing"}

\* Changes of the kind tag to a byte that is no account transaction kind.
TagTampers == {"kindTag200", "kindTag255"}

TamperTag(t) == IF t = "kindTag200" THEN 200 ELSE 255

\* The kind tag a submission blob carries behind its signatures and header.
KindTagOf(blob, signatures) ==
    blob[2 + Len(serializeAccountTransactionSignature(signatures)) + 60 + 1]

Tamper(blob, signatures, t) ==
    LET hdr == 2 + Len(serializeAccountTransactionSignature(signatures)) IN
    CASE t = "none" -> blob
      [] t = "energy" -> [blob EXCEPT ![hdr + 32 + 8 + 8] = (@ + 1) % 256]
      [] t = "payloadSize" -> [blob EXCEPT ![hdr + 32 + 8 + 8 + 4] = (@ + 1) % 256]
      [] t = "trailing" -> blob \o <<0>>
      [] t \in TagTampers -> [blob EXCEPT ![hdr + 60 + 1] = TamperTag(t)]

-----------------------------------------------------------------------------
(* Sampled schemas, values and contract states *)

IntType(width, signed) == [k |-> "int", width |-> width, signed |-> signed]

BoolType == [k |-> "bool"]

UnitType == [k |-> "unit"]

StringType(prefix) == [k |-> "string", prefix |-> prefix]

ListType(prefix, of) == [k |-> "list", prefix |-> prefix, of |-> of]

OptionType(of) == [k |-> "option", of |-> of]

EnumType(variants) == [k |-> "enum", variants |-> variants]

Variant(name, fields) == [name |-> name, fields |-> fields]

\* The state of the PiggyBank contract: Intact or Smashed.
PiggyBankState == EnumType(<<Variant("Intact", UnitType), Variant("Smashed", UnitType)>>)

\* An enum of more variants than a byte counts.
WideEnum == EnumType([i \in 1..257 |-> Variant(ToString(i), UnitType)])

TaggedEnum ==
    EnumType(<<Variant("A", UnitType),
               Variant("B", [k |-> "tuple", types |-> <<IntType(1, FALSE)>>]),
               Variant("C", OptionType(BoolType))>>)

\* The first fields of the view of the auction contract.
AuctionView ==
    [k |-> "struct",
     fields |-> <<[name |-> "auction_state",
                   type |-> EnumType(<<Variant("NotSoldYet", UnitType),
                                       Variant("Sold", IntType(8, FALSE))>>)],
                  [name |-> "highest_bidder", type |-> OptionType(IntType(8, FALSE))],
                  [name |-> "item", type |-> StringType(4)]>>]

\* "A good item"
AGoodItem == [str |-> <<65, 32, 103, 111, 111, 100, 32, 105, 116, 101, 109>>]

Dec(digits) == DecimalString(digits, FALSE)

Neg(digits) == DecimalString(digits, TRUE)

MaxU64 == Dec(<<1, 8, 4, 4, 6, 7, 4, 4, 0, 7, 3, 7, 0, 9, 5, 5, 1, 6, 1, 5>>)

TV(S, V) == [schema |-> S, value |-> V]

\* Schema nodes, each with a value that conforms to it: a number within the
\* width, a canonical decimal string within the width, one entry per field.
SampleTypeValues ==
    <<TV(IntType(1, FALSE), 0), TV(IntType(1, FALSE), 255),
      TV(IntType(1, TRUE), -128), TV(IntType(1, TRUE), -1),
      TV(IntType(1, TRUE), 127),
      TV(IntType(2, FALSE), 258), TV(IntType(2, TRUE), -1),
      TV(IntType(2, TRUE), 1), TV(IntType(2, TRUE), -32768),
      TV(IntType(4, FALSE), 16909060), TV(IntType(4, TRUE), -2147483647),
      TV(IntType(4, TRUE), 2147483647),
      TV(IntType(8, FALSE), Dec(<<0>>)), TV(IntType(8, FALSE), Dec(<<2, 5, 6>>)),
      TV(IntType(8, FALSE), MaxU64),
      TV(IntType(8, TRUE), Neg(<<1>>)),
      TV(IntType(8, TRUE),
         Neg(<<9, 2, 2, 3, 3, 7, 2, 0, 3, 6, 8, 5, 4, 7, 7, 5, 8, 0, 8>>)),
      TV(IntType(8, TRUE),
         Dec(<<9, 2, 2, 3, 3, 7, 2, 0, 3, 6, 8, 5, 4, 7, 7, 5, 8, 0, 7>>)),
      TV(IntType(16, FALSE),
         Dec(<<3, 4, 0, 2, 8, 2, 3, 6, 6, 9, 2, 0, 9, 3, 8, 4, 6, 3, 4, 6,
               3, 3, 7, 4, 6, 0, 7, 4, 3, 1, 7, 6, 8, 2, 1, 1, 4, 5, 5>>)),
      TV(IntType(16, TRUE), Neg(<<2, 5, 6>>)),
      TV([k |-> "uleb128", maxBytes |-> 5], Dec(<<8, 2, 0, 0, 0, 0, 0, 0>>)),
      TV([k |-> "uleb128", maxBytes |-> 5], Dec(<<0>>)),
      TV([k |-> "uleb128", maxBytes |-> 5], Dec(<<1, 2, 8>>)),
      TV(BoolType, TRUE), TV(BoolType, FALSE),
      TV(UnitType, <<>>),
      TV([k |-> "array", n |-> 2, of |-> IntType(1, FALSE)], <<1, 2>>),
      TV([k |-> "array", n |-> 0, of |-> BoolType], <<>>),
      TV(ListType(1, IntType(2, FALSE)), <<>>),
      TV(ListType(1, IntType(2, FALSE)), <<1, 65535>>),
      TV(ListType(2, BoolType), <<TRUE>>),
      TV(ListType(4, UnitType), <<<<>>, <<>>>>),
      TV(ListType(4, StringType(1)), <<[str |-> <<104>>], [str |-> <<>>]>>),
      TV([k |-> "tuple", types |-> <<IntType(1, FALSE), BoolType>>], <<7, TRUE>>),
      TV(AuctionView,
         [auction_state |-> "NotSoldYet" :> <<>>,
          highest_bidder |-> "None" :> <<>>,
          item |-> AGoodItem]),
      TV(AuctionView,
         [auction_state |-> "Sold" :> Dec(<<7>>),
          highest_bidder |-> "Some" :> <<Dec(<<4, 2>>)>>,
          item |-> [str |-> <<>>]]),
      TV(PiggyBankState, "Intact" :> <<>>),
      TV(PiggyBankState, "Smashed" :> <<>>),
      TV(TaggedEnum, "A" :> <<>>),
      TV(TaggedEnum, "B" :> <<9>>),
      TV(TaggedEnum, "C" :> ("Some" :> <<FALSE>>)),
      TV(WideEnum, "1" :> <<>>),
      TV(WideEnum, "256" :> <<>>),
      TV(WideEnum, "257" :> <<>>),
      TV(StringType(1), [str |-> <<>>]),
      TV(StringType(2), [str |-> <<104, 233>>]),
      TV(StringType(4), AGoodItem),
      TV(OptionType(IntType(1, FALSE)), "None" :> <<>>),
      TV(OptionType(IntType(1, FALSE)), "Some" :> <<5>>),
      TV(OptionType(OptionType(BoolType)), "Some" :> <<"None" :> <<>>>>),
      TV([k |-> "map", prefix |-> 1, key |-> IntType(1, FALSE), value |-> BoolType],
         <<<<1, TRUE>>, <<2, FALSE>>>>),
      TV([k |-> "map", prefix |-> 4, key |-> StringType(1), value |-> UnitType],
         <<>>),
      TV([k |-> "Amount"], Dec(<<0>>)),
      TV([k |-> "Amount"], Dec(<<1, 0, 0, 0, 0, 0, 0>>)),
      TV([k |-> "Amount"], MaxU64)>>

\* A module schema: the state schema of each of its contracts.
SampleModuleSchema ==
    [PiggyBank |-> [state |-> PiggyBankState],
     Tagged |-> [state |-> TaggedEnum],
     Wide |-> [state |-> WideEnum]]

\* Contract states: a discriminant, then nothing or the bytes of a payload.
SampleStates ==
    {<<d>> : d \in {0, 1, 2, 3, 255}} \cup
    {<<d, e>> : d \in {0, 1, 2, 255}, e \in {0, 1, 2}}

\* Type-specific schemas, each the schema of one type of TestModuleSchema.
CIS2_WCCD_STATE_GET_BALANCE_RETURN_VALUE_SCHEMA ==
    [k |-> "uleb128", maxBytes |-> 37]

CIS2_WCCD_STATE_ERROR_SCHEMA == IntType(8, TRUE)

AUCTION_WITH_ERRORS_VIEW_RETURN_VALUE_SCHEMA == AuctionView

AUCTION_WITH_ERRORS_ERROR_SCHEMA ==
    EnumType(<<Variant("BidTooLow", UnitType), Variant("BidTooLate", UnitType)>>)

TEST_CONTRACT_RETURN_VALUE_SCHEMA == IntType(2, FALSE)

TEST_CONTRACT_RECEIVE_ERROR_SCHEMA == IntType(2, TRUE)

TEST_CONTRACT_INIT_ERROR_SCHEMA == IntType(2, TRUE)

\* A module schema: per contract the error of init and, per receive
\* function, the return value and the error.
TestModuleSchema ==
    ("CIS2-wCCD-State" :>
        [init |-> [error |-> IntType(8, TRUE)],
         receive |-> ("getBalance" :>
             [returnValue |-> [k |-> "uleb128", maxBytes |-> 37],
              error |-> IntType(8, TRUE)])]) @@
    ("auction" :>
        [init |-> [error |-> EnumType(<<Variant("BidTooLow", UnitType),
                                        Variant("BidTooLate", UnitType)>>)],
         receive |-> ("view" :>
             [returnValue |-> AuctionView,
              error |-> EnumType(<<Variant("BidTooLow", UnitType),
                                   Variant("BidTooLate", UnitType)>>)])]) @@
    ("TestContract" :>
        [init |-> [error |-> IntType(2, TRUE)],
         receive |-> ("receive_function" :>
             [returnValue |-> IntType(2, FALSE),
              error |-> IntType(2, TRUE)])])

SampleContractNames == DOMAIN TestModuleSchema \cup {"Unknown"}

SampleFunctionNames ==
    {"getBalance", "view", "receive_function", "unknown_function"}

\* The type-specific schema of the type the selectors name.
TypeSpecificSchema(contractName, functionName, selector) ==
    CASE contractName = "CIS2-wCCD-State" /\ selector = "returnValue" ->
            CIS2_WCCD_STATE_GET_BALANCE_RETURN_VALUE_SCHEMA
      [] contractName = "CIS2-wCCD-State" /\ selector # "returnValue" ->
            CIS2_WCCD_STATE_ERROR_SCHEMA
      [] contractName = "auction" /\ selector = "returnValue" ->
            AUCTION_WITH_ERRORS_VIEW_RETURN_VALUE_SCHEMA
      [] contractName = "auction" /\ selector # "returnValue" ->
            AUCTION_WITH_ERRORS_ERROR_SCHEMA
      [] contractName = "TestContract" /\ selector = "returnValue" ->
            TEST_CONTRACT_RETURN_VALUE_SCHEMA
      [] contractName = "TestContract" /\ selector = "receiveError" ->
            TEST_CONTRACT_RECEIVE_ERROR_SCHEMA
      [] contractName = "TestContract" /\ selector = "initError" ->
            TEST_CONTRACT_INIT_ERROR_SCHEMA

\* The selectors name a type of TestModuleSchema.
NamesAType(contractName, functionName, selector) ==
    /\ contractName \in {"CIS2-wCCD-State", "auction", "TestContract"}
    /\ selector # "initError" =>
          functionName = (CASE contractName = "CIS2-wCCD-State" -> "getBalance"
                            [] contractName = "auction" -> "view"
                            [] contractName = "TestContract" -> "receive_function")

\* Raw return values and errors: those of the tests and malformed ones.
SampleRawValues ==
    {<<128, 241, 140, 39>>, <<255, 255>>, <<1, 0>>, <<0, 128>>, <<255, 127>>,
     <<>>, <<255>>, <<128>>, <<1>>,
     <<0, 0, 11, 0, 0, 0>> \o AGoodItem.str,
     <<1, 7, 0, 0, 0, 0, 0, 0, 0, 0, 0, 0, 0, 0, 0>>,
     <<255, 255, 255, 255, 255, 255, 255, 255>>}

-----------------------------------------------------------------------------
(* The state machine: a caller makes one call at a time and takes its result *)

Init ==
    /\ pc = "idle"
    /\ inp = <<>>
    /\ out = <<>>

Return ==
    /\ pc # "idle"
    /\ pc' = "idle"
    /\ inp' = <<>>
    /\ out' = <<>>

\* A decoder called on a prefix of the bytes of a sampled value.
CallCredentialEntry ==
    /\ pc = "idle"
    /\ \E e \in SampleCredentialEntries :
         LET full == serializeCIS4CredentialEntry(e) IN
         \E n \in 0..Len(full) :
            /\ inp' = [bytes |-> Take(full, n), need |-> Len(full),
                       sample |-> e, tamper |-> "none"]
            /\ out' = deserializeCIS4CredentialEntry(toHex(Take(full, n)))
    /\ pc' = "deserializeCIS4CredentialEntry"

\* A credential entry whose validUntil presence flag is neither 0 nor 1.
CallCredentialEntryFlag ==
    /\ pc = "idle"
    /\ \E e \in SampleCredentialEntries, f \in OtherFlags :
         LET full == serializeCIS4CredentialEntry(e)
             bytes == [full EXCEPT ![ValidUntilFlagAt] = f] IN
         /\ inp' = [bytes |-> bytes, need |-> Len(full),
                    sample |-> e, tamper |-> "optionFlag"]
         /\ out' = deserializeCIS4CredentialEntry(toHex(bytes))
    /\ pc' = "deserializeCIS4CredentialEntry"

\* A credential entry whose holderRevocable byte is neither 0 nor 1.
CallCredentialEntryBool ==
    /\ pc = "idle"
    /\ \E e \in SampleCredentialEntries, f \in OtherBools :
         LET full == serializeCIS4CredentialEntry(e)
             bytes == [full EXCEPT ![HolderRevocableAt] = f] IN
         /\ inp' = [bytes |-> bytes, need |-> Len(full),
                    sample |-> e, tamper |-> "boolByte"]
         /\ out' = deserializeCIS4CredentialEntry(toHex(bytes))
    /\ pc' = "deserializeCIS4CredentialEntry"

\* A decoder called on the bytes of a sampled value with more bytes behind.
CallWithTrailingBytes ==
    /\ pc = "idle"
    /\ \E t \in SampleTrailing :
         \/ \E e \in SampleCredentialEntries :
               LET full == serializeCIS4CredentialEntry(e) IN
               /\ inp' = [bytes |-> full \o t, need |-> Len(full),
                          sample |-> e, tamper |-> "trailing"]
               /\ out' = deserializeCIS4CredentialEntry(toHex(full \o t))
               /\ pc' = "deserializeCIS4CredentialEntry"
         \/ \E r \in SampleMetadataResponses :
               LET full == serializeCIS4MetadataResponse(r) IN
               /\ inp' = [bytes |-> full \o t, need |-> Len(full),
                          sample |-> r, tamper |-> "trailing"]
               /\ out' = deserializeCIS4MetadataResponse(toHex(full \o t))
               /\ pc' = "deserializeCIS4MetadataResponse"
         \/ \E b \in {0, 1, 2} :
               /\ inp' = [bytes |-> <<b>> \o t, need |-> 1,
                          sample |-> b, tamper |-> "trailing"]
               /\ out' = deserializeCIS4CredentialStatus(toHex(<<b>> \o t))
               /\ pc' = "deserializeCIS4CredentialStatus"

\* A list decoder called on elements written one behind the other, whole or
\* with the last byte cut off.
CallListResponse ==
    /\ pc = "idle"
    /\ \E deserializer \in {"deserializeCIS4RevocationKey",
                             "deserializeSupportResultItem"} :
       \E items \in SeqsUpTo(IF deserializer = "deserializeCIS4RevocationKey"
                              THEN SampleRevocationKeys
                              ELSE SampleSupportResults, MaxListLen) :
       \E cut \in {0, 1} :
         LET full == ListBytes(deserializer, items)
             bytes == Take(full, Len(full) - cut) IN
         /\ cut <= Len(full)
         /\ inp' = [bytes |-> bytes, sample |-> items, cut |-> cut,
                    lastLen |-> IF items = <<>> THEN 0
                                ELSE Len(ItemBytes(deserializer,
                                                   items[Len(items)]))]
         /\ out' = makeDeserializeListResponse(deserializer, toHex(bytes))
         /\ pc' = IF deserializer = "deserializeCIS4RevocationKey"
                  THEN "deserializeCIS4RevocationKeys"
                  ELSE "deserializeSupportResult"

CallSerializeRevocationDataHolder ==
    /\ pc = "idle"
    /\ \E data \in SampleRevocationData :
         /\ inp' = data
         /\ out' = [val |-> serializeCIS4RevocationDataHolder(data)]
    /\ pc' = "serializeCIS4RevocationDataHolder"

CallSerializeRevocationDataOther ==
    /\ pc = "idle"
    /\ \E d \in SampleRevocationData :
         LET data == [credentialPubKey |-> d.credentialPubKey,
                      signingData |-> d.signingData,
                      revocationPubKey |-> Key(9),
                      reason |-> d.reason] IN
         /\ inp' = data
         /\ out' = [val |-> serializeCIS4RevocationDataOther(data)]
    /\ pc' = "serializeCIS4RevocationDataOther"

\* Two or more decode calls begin, each on its own value.
CallConcurrently ==
    /\ pc = "idle"
    /\ \E n \in 2..MaxCalls : \E calls \in [1..n -> SampleConcurrentCalls] :
         /\ inp' = calls
         /\ out' = [p \in 1..n |-> BeginCall(calls[p].fun, calls[p].value)]
    /\ pc' = "concurrent"

\* One of the calls in progress runs its next statement.
StepCall ==
    /\ pc = "concurrent"
    /\ \E p \in DOMAIN out :
         /\ out[p].stage \notin {"returned", "thrown"}
         /\ out' = [out EXCEPT ![p] = StepOf(out, p)]
    /\ UNCHANGED <<pc, inp>>

\* cis0Supports is called and awaits getInstanceInfo.
CallCis0Supports ==
    /\ pc = "idle"
    /\ \E standardIds \in SampleStandardIdArgs :
         inp' = [standardIds |-> standardIds]
    /\ out' = [state |-> "pending", invokes |-> <<>>]
    /\ pc' = "cis0Supports:getInstanceInfo"

\* getInstanceInfo answers; cis0Supports runs on to its end or to the await
\* of invokeContract.
GetInstanceInfoAnswers ==
    /\ pc = "cis0Supports:getInstanceInfo"
    /\ \E instanceInfo \in SampleInstanceInfos \cup {Undefined} :
         /\ inp' = [standardIds |-> inp.standardIds,
                    instanceInfo |-> instanceInfo]
         /\ out' = cis0SupportsAfterInstanceInfo(inp.standardIds, instanceInfo)
    /\ pc' = IF out'.state = "invoking" THEN "cis0Supports:invokeContract"
             ELSE "cis0Supports"

\* invokeContract answers; cis0Supports runs to its end.
InvokeContractAnswers ==
    /\ pc = "cis0Supports:invokeContract"
    /\ \E response \in SampleInvokeResponses :
         /\ inp' = [standardIds |-> inp.standardIds,
                    instanceInfo |-> inp.instanceInfo,
                    response |-> response]
         /\ out' = cis0SupportsAfterInvoke(inp.standardIds, response,
                                           out.invokes)
    /\ pc' = "cis0Supports"

\* getModuleSource is called: it throws, or sends its request and awaits.
CallGetModuleSource ==
    /\ pc = "idle"
    /\ \E blockHash \in SampleBlockHashes :
         /\ inp' = [blockHash |-> blockHash]
         /\ out' = getModuleSourceRequest(Fill(32, 9), blockHash)
    /\ pc' = IF out'.state = "awaiting" THEN "getModuleSource:await"
             ELSE "getModuleSource"

\* The node answers the request.
ModuleSourceAnswers ==
    /\ pc = "getModuleSource:await"
    /\ \E response \in {[oneofKind |-> "v0", value |-> <<0, 97>>],
                         [oneofKind |-> "v1", value |-> <<1, 97>>],
                         [oneofKind |-> "none"]} :
         out' = getModuleSourceResponse(response, out.requests)
    /\ pc' = "getModuleSource"
    /\ UNCHANGED inp

CallGetInvokerInput ==
    /\ pc = "idle"
    /\ \E invoker \in SampleInvokers :
         /\ inp' = [invoker |-> invoker]
         /\ out' = getInvokerInput(invoker)
    /\ pc' = "getInvokerInput"

DurationCalls ==
    {"Duration.fromMillis", "Duration.fromString", "Duration.fromSchemaValue",
     "Duration.fromProto"}

TimestampCalls ==
    {"Timestamp.fromMillis", "Timestamp.fromDate", "Timestamp.fromSchemaValue",
     "Timestamp.fromProto", "Timestamp.fromTypedJSON"}

CallDurationFromMillis ==
    /\ pc = "idle"
    /\ \E value \in SampleMillis :
         /\ inp' = [value |-> value]
         /\ out' = DurationFromMillis(value)
    /\ pc' = "Duration.fromMillis"

CallDurationFromString ==
    /\ pc = "idle"
    /\ \E durationString \in SampleDurationStrings :
         /\ inp' = [string |-> durationString]
         /\ out' = DurationFromString(durationString)
    /\ pc' = "Duration.fromString"

CallDurationFromSchemaValue ==
    /\ pc = "idle"
    /\ \E duration \in SampleDurationStrings :
         /\ inp' = [string |-> duration]
         /\ out' = DurationFromSchemaValue(duration)
    /\ pc' = "Duration.fromSchemaValue"

CallDurationFromProto ==
    /\ pc = "idle"
    /\ \E duration \in SampleProtoValues :
         /\ inp' = [value |-> Integer(duration.value)]
         /\ out' = DurationFromProto(duration)
    /\ pc' = "Duration.fromProto"

\* A Duration that was made is written as a schema value and read back.
CallDurationToSchemaValue ==
    /\ pc \in DurationCalls
    /\ out.ok
    /\ inp' = [duration |-> out.val,
               string |-> DurationToSchemaValue(out.val)]
    /\ out' = DurationFromSchemaValue(DurationToSchemaValue(out.val))
    /\ pc' = "Duration.toSchemaValue"

CallTimestampFromMillis ==
    /\ pc = "idle"
    /\ \E value \in SampleMillis :
         /\ inp' = [value |-> value]
         /\ out' = TimestampFromMillis(value)
    /\ pc' = "Timestamp.fromMillis"

CallTimestampFromDate ==
    /\ pc = "idle"
    /\ \E date \in SampleDates :
         /\ inp' = [value |-> date.time]
         /\ out' = TimestampFromDate(date)
    /\ pc' = "Timestamp.fromDate"

CallTimestampFromSchemaValue ==
    /\ pc = "idle"
    /\ \E timestamp \in SampleDateStrings :
         /\ inp' = [timestamp |-> timestamp]
         /\ out' = TimestampFromSchemaValue(timestamp)
    /\ pc' = "Timestamp.fromSchemaValue"

CallTimestampFromProto ==
    /\ pc = "idle"
    /\ \E timestamp \in SampleProtoValues :
         /\ inp' = [value |-> Integer(timestamp.value)]
         /\ out' = TimestampFromProto(timestamp)
    /\ pc' = "Timestamp.fromProto"

CallTimestampFromTypedJSON ==
    /\ pc = "idle"
    /\ \E json \in SampleTypedJson :
         /\ inp' = [type |-> json.type, string |-> json.value]
         /\ out' = TimestampFromTypedJSON(json)
    /\ pc' = "Timestamp.fromTypedJSON"

CallOptional ==
    /\ pc = "idle"
    /\ \E f \in {0, 1} \cup OtherFlags, n \in 0..9 :
         LET bytes == Take(<<f>> \o ToWord(70000, 8), n) IN
         /\ inp' = [bytes |-> bytes,
                    need |-> IF f = 0 THEN 1 ELSE 9,
                    sample |-> IF f = 0 THEN Undefined
                               ELSE [ms |-> Reverse(ToWord(70000, 8))],
                    tamper |-> IF f \in {0, 1} THEN "none" ELSE "optionFlag"]
         /\ out' = deserializeOptional(Cursor(bytes), "deserializeDate")
    /\ pc' = "deserializeOptional"

CallMetadataResponse ==
    /\ pc = "idle"
    /\ \E r \in SampleMetadataResponses :
         LET full == serializeCIS4MetadataResponse(r) IN
         \E n \in 0..Len(full) :
            /\ inp' = [bytes |-> Take(full, n), need |-> Len(full),
                       sample |-> r, tamper |-> "none"]
            /\ out' = deserializeCIS4MetadataResponse(toHex(Take(full, n)))
    /\ pc' = "deserializeCIS4MetadataResponse"

CallCredentialStatus ==
    /\ pc = "idle"
    /\ \E b \in {0, 1, 2, 3, 4, 255}, n \in 0..1 :
         /\ inp' = [bytes |-> Take(<<b>>, n), need |-> 1,
                    sample |-> b, tamper |-> "none"]
         /\ out' = deserializeCIS4CredentialStatus(toHex(Take(<<b>>, n)))
    /\ pc' = "deserializeCIS4CredentialStatus"

CallRevocationKey ==
    /\ pc = "idle"
    /\ \E k \in SampleRevocationKeys :
         LET full == serializeCIS4RevocationKey(k) IN
         \E n \in 0..Len(full) :
            /\ inp' = [bytes |-> Take(full, n), need |-> Len(full),
                       sample |-> k, tamper |-> "none"]
            /\ out' = deserializeCIS4RevocationKey(Cursor(Take(full, n)))
    /\ pc' = "deserializeCIS4RevocationKey"

\* One support result at the head of a buffer that may hold more, or less,
\* than the result declares.
CallSupportResultItem ==
    /\ pc = "idle"
    /\ \E t \in 0..3, n \in 0..(MaxAddresses + 1),
          len \in 0..(2 + 16 * MaxAddresses) :
         LET bytes == Take(<<t, n>> \o AddressBytes(MaxAddresses), len) IN
         /\ inp' = [bytes |-> bytes,
                    need |-> IF t = 2 THEN 2 + 16 * n ELSE 1,
                    sample |-> [type |-> t, n |-> n],
                    tamper |-> "none"]
         /\ out' = deserializeSupportResultItem(bytes)
    /\ pc' = "deserializeSupportResultItem"

CallSerializeForSubmission ==
    /\ pc = "idle"
    /\ \E tx \in SampleTransactions, sigs \in SampleSignatures :
         /\ inp' = [transaction |-> tx, signatures |-> sigs]
         /\ out' = [ok |-> TRUE,
                    val |-> serializeAccountTransactionForSubmission(tx, sigs)]
    /\ pc' = "serializeAccountTransactionForSubmission"

\* The blob just serialized, as it is or changed in one place, is deserialized.
CallDeserializeTransaction ==
    /\ pc = "serializeAccountTransactionForSubmission"
    /\ \E t \in Tampers \cup TagTampers :
         LET blob == Tamper(out.val, inp.signatures, t) IN
         /\ inp' = [blob |-> blob,
                    transaction |-> inp.transaction,
                    signatures |-> inp.signatures,
                    tamper |-> t,
                    kindTag |-> KindTagOf(blob, inp.signatures)]
         /\ out' = deserializeTransaction(blob)
    /\ pc' = "deserializeTransaction"

\* The deserialized transaction and signatures are serialized again.
CallReserialize ==
    /\ pc = "deserializeTransaction"
    /\ out.ok
    /\ inp' = [blob |-> inp.blob, tamper |-> inp.tamper,
               deserialized |-> out.val.transaction]
    /\ out' = [ok |-> TRUE,
               val |-> serializeAccountTransactionForSubmission(
                           out.val.transaction.accountTransaction,
                           out.val.transaction.signatures)]
    /\ pc' = "reserializeAccountTransaction"

CallSignMessage ==
    /\ pc = "idle"
    /\ \E a \in SampleAccounts, m \in SampleMessages :
         /\ inp' = [account |-> a, message |-> m, prior |-> "none",
                    txDigest |-> sha256(<<>>), nonce |-> ToWord(0, 8)]
         /\ out' = signMessage(a, m, KeyOf(a))
    /\ pc' = "signMessage"

\* A signature is verified against an account and a message, the signed ones
\* or others.
CallVerifyMessageSignature ==
    /\ pc = "signMessage"
    /\ \E a \in SampleAccounts, m \in SampleMessages :
         /\ inp' = [account |-> inp.account, message |-> inp.message,
                    signature |-> out,
                    accountInfo |-> [accountAddress |-> a, key |-> KeyOf(a)],
                    vMessage |-> m]
         /\ out' = verifyMessageSignature(
                       m, out, [accountAddress |-> a, key |-> KeyOf(a)])
    /\ pc' = "verifyMessageSignature"

CallTransactionSignDigest ==
    /\ pc = "idle"
    /\ \E tx \in SampleTransactions :
         /\ inp' = [transaction |-> tx]
         /\ out' = [digest |-> getAccountTransactionSignDigest(tx, 1)]
    /\ pc' = "getAccountTransactionSignDigest"

\* After a transaction was built, a message is signed: a sampled one, or the
\* bytes that follow the sender or the nonce in the transaction's signed bytes.
CallSignMessageAfterTransaction ==
    /\ pc = "getAccountTransactionSignDigest"
    /\ \E a \in SampleAccounts,
          m \in SampleMessages \cup {[bytes |-> Drop(out.digest.sha256, 32)],
                                     [bytes |-> Drop(out.digest.sha256, 32 + 8)]} :
         /\ inp' = [account |-> a, message |-> m, prior |-> "transaction",
                    txDigest |-> out.digest,
                    nonce |-> inp.transaction.header.nonce]
         /\ out' = signMessage(a, m, KeyOf(a))
    /\ pc' = "signMessage"

CallSerializeTypeValue ==
    /\ pc = "idle"
    /\ \E i \in 1..Len(SampleTypeValues) :
         /\ inp' = SampleTypeValues[i]
         /\ out' = [ok |-> TRUE,
                    val |-> serializeTypeValue(SampleTypeValues[i].value,
                                               SampleTypeValues[i].schema)]
    /\ pc' = "serializeTypeValue"

\* The bytes just serialized are deserialized under the same schema.
CallDeserializeTypeValue ==
    /\ pc = "serializeTypeValue"
    /\ inp' = [schema |-> inp.schema, value |-> inp.value, bytes |-> out.val]
    /\ out' = deserializeTypeValue(out.val, inp.schema)
    /\ pc' = "deserializeTypeValue"

CallDeserializeReceiveReturnValue ==
    /\ pc = "idle"
    /\ \E bytes \in SampleRawValues, contractName \in SampleContractNames,
          functionName \in SampleFunctionNames :
         /\ inp' = [bytes |-> bytes, contractName |-> contractName,
                    functionName |-> functionName, selector |-> "returnValue"]
         /\ out' = deserializeReceiveReturnValue(bytes, TestModuleSchema,
                                                 contractName, functionName)
    /\ pc' = "deserializeReceiveReturnValue"

CallDeserializeReceiveError ==
    /\ pc = "idle"
    /\ \E bytes \in SampleRawValues, contractName \in SampleContractNames,
          functionName \in SampleFunctionNames :
         /\ inp' = [bytes |-> bytes, contractName |-> contractName,
                    functionName |-> functionName, selector |-> "receiveError"]
         /\ out' = deserializeReceiveError(bytes, TestModuleSchema,
                                           contractName, functionName)
    /\ pc' = "deserializeReceiveError"

CallDeserializeInitError ==
    /\ pc = "idle"
    /\ \E bytes \in SampleRawValues, contractName \in SampleContractNames :
         /\ inp' = [bytes |-> bytes, contractName |-> contractName,
                    functionName |-> "init", selector |-> "initError"]
         /\ out' = deserializeInitError(bytes, TestModuleSchema, contractName)
    /\ pc' = "deserializeInitError"

\* The same bytes are decoded again, under the type-specific schema of the
\* type the selectors of the call before named.
CallDeserializeTypeValueSameBytes ==
    /\ pc \in {"deserializeReceiveReturnValue", "deserializeReceiveError",
                "deserializeInitError"}
    /\ NamesAType(inp.contractName, inp.functionName, inp.selector)
    /\ LET rawSchema == TypeSpecificSchema(inp.contractName, inp.functionName,
                                           inp.selector) IN
       /\ inp' = [bytes |-> inp.bytes, contractName |-> inp.contractName,
                  functionName |-> inp.functionName,
                  selector |-> inp.selector, moduleResult |-> out]
       /\ out' = deserializeTypeValue(inp.bytes, rawSchema)
    /\ pc' = "deserializeTypeValueSameBytes"

CallDeserializeContractState ==
    /\ pc = "idle"
    /\ \E contractName \in DOMAIN SampleModuleSchema \cup {"Unknown"},
          state \in SampleStates :
         /\ inp' = [contractName |-> contractName, state |-> state]
         /\ out' = deserializeContractState(contractName, SampleModuleSchema, state)
    /\ pc' = "deserializeContractState"

Next ==
    \/ CallCredentialEntry
    \/ CallCredentialEntryFlag
    \/ CallCredentialEntryBool
    \/ CallWithTrailingBytes
    \/ CallListResponse
    \/ CallSerializeRevocationDataHolder
    \/ CallSerializeRevocationDataOther
    \/ CallCis0Supports
    \/ GetInstanceInfoAnswers
    \/ InvokeContractAnswers
    \/ CallGetModuleSource
    \/ ModuleSourceAnswers
    \/ CallGetInvokerInput
    \/ CallDurationFromMillis
    \/ CallDurationFromString
    \/ CallDurationFromSchemaValue
    \/ CallDurationFromProto
    \/ CallDurationToSchemaValue
    \/ CallTimestampFromMillis
    \/ CallTimestampFromDate
    \/ CallTimestampFromSchemaValue
    \/ CallTimestampFromProto
    \/ CallTimestampFromTypedJSON
    \/ CallConcurrently
    \/ StepCall
    \/ CallOptional
    \/ CallMetadataResponse
    \/ CallCredentialStatus
    \/ CallRevocationKey
    \/ CallSupportResultItem
    \/ CallSerializeForSubmission
    \/ CallDeserializeTransaction
    \/ CallReserialize
    \/ CallSignMessage
    \/ CallVerifyMessageSignature
    \/ CallTransactionSignDigest
    \/ CallSignMessageAfterTransaction
    \/ CallSerializeTypeValue
    \/ CallDeserializeTypeValue
    \/ CallDeserializeContractState
    \/ CallDeserializeReceiveReturnValue
    \/ CallDeserializeReceiveError
    \/ CallDeserializeInitError
    \/ CallDeserializeTypeValueSameBytes
    \/ Return

Spec == Init /\ [][Next]_vars

-----------------------------------------------------------------------------
(* waitForTransactionFinalization against a node and its block stream.
   pc is where the executor of the promise stands, inp is the node, the
   stream and the timer, out is the promise and what the executor did. *)

\* Counts of blocks go no higher than this.
MaxBlocks == 3

BlockHashes == {"block1", "block2"}

Min(a, b) == IF a < b THEN a ELSE b

\* Mutant of IsFinalized: a committed transaction counts as well.
IsNotReceived(response) == response.status # "received"

\* response.status === 'finalized'
IsFinalized(response) == response.status = "finalized"

\* resolve and reject settle a promise that is pending and do nothing to a
\* settled one.
Resolve(promise, value, status) ==
    IF promise.promise # "pending" THEN promise
    ELSE [promise EXCEPT !.promise = "resolved", !.value = value,
                         !.resolvedFrom = status]

\* Mutant of Reject: a settled promise is settled again.
RejectOverwrites(promise, error) ==
    [promise EXCEPT !.promise = "rejected", !.value = error]

Reject(promise, error) ==
    IF promise.promise # "pending" THEN promise
    ELSE [promise EXCEPT !.promise = "rejected", !.value = error]

\* abortController.abort(): the signal is aborted and an open stream ends,
\* by its end or by an error.
Abort(node, how) ==
    [node EXCEPT !.aborted = TRUE,
                 !.stream = IF node.stream = "open" THEN how ELSE node.stream]

\* What getBlockItemStatus answers with.
BlockItemStatus(node) ==
    [status |-> node.status, outcome |-> [blockHash |-> node.blockHash]]

InitWait ==
    /\ pc = "start"
    /\ inp \in {[timeoutTime |-> t, status |-> st,
                 blockHash |-> IF st = "finalized" THEN b ELSE "none",
                 stream |-> "closed", aborted |-> FALSE, pending |-> 0,
                 timer |-> "none"] :
                    t \in {0, 1}, st \in {"received", "committed", "finalized"},
                    b \in BlockHashes}
    /\ out = [promise |-> "pending", value |-> "none", resolvedFrom |-> "none",
              queries |-> 0, received |-> 0, lastAnswer |-> "none",
              openAtFirstQuery |-> FALSE, abortScheduled |-> FALSE]

\* The executor up to its first await: the timer is set when a timeout was
\* given, the stream is opened, the first status query is sent.
Begin ==
    /\ pc = "start"
    /\ inp' = [inp EXCEPT !.timer = IF inp.timeoutTime # 0 THEN "armed"
                                    ELSE "none",
                          !.stream = "open"]
    /\ out' = [out EXCEPT !.queries = 1,
                          !.openAtFirstQuery = (inp'.stream = "open")]
    /\ pc' = "awaitStatus"

\* getBlockItemStatus answers: a finalized status resolves the promise and
\* schedules the abort, any other status goes on to the next block.
StatusAnswers ==
    /\ pc = "awaitStatus"
    /\ LET response == BlockItemStatus(inp) IN
       IF IsFinalized(response)
       THEN /\ out' = [Resolve(out, response.outcome.blockHash, response.status)
                          EXCEPT !.lastAnswer = response.status,
                                 !.abortScheduled = TRUE]
            /\ pc' = "finished"
       ELSE /\ out' = [out EXCEPT !.lastAnswer = response.status]
            /\ pc' = "awaitBlock"
    /\ UNCHANGED inp

\* The loop takes the next block of the stream and queries the status again.
NextBlock ==
    /\ pc = "awaitBlock"
    /\ inp.pending > 0
    /\ inp' = [inp EXCEPT !.pending = inp.pending - 1]
    /\ out' = [out EXCEPT !.received = Min(out.received + 1, MaxBlocks),
                          !.queries = Min(out.queries + 1, MaxBlocks + 1)]
    /\ pc' = "awaitStatus"

\* The stream has ended and no block is left: 'Unexpected end of stream.'
\* unless the signal is aborted.
LoopEnds ==
    /\ pc = "awaitBlock"
    /\ inp.pending = 0
    /\ inp.stream = "ended"
    /\ out' = IF ~inp.aborted THEN Reject(out, "Unexpected end of stream.")
              ELSE out
    /\ pc' = "finished"
    /\ UNCHANGED inp

\* The stream throws: the catch rejects with the error.
LoopThrows ==
    /\ pc = "awaitBlock"
    /\ inp.pending = 0
    /\ inp.stream = "failed"
    /\ out' = Reject(out, "stream error")
    /\ pc' = "finished"
    /\ UNCHANGED inp

\* setTimeout(() => abortController.abort(), 0) runs.
ScheduledAbort ==
    /\ out.abortScheduled
    /\ \E how \in {"ended", "failed"} : inp' = Abort(inp, how)
    /\ out' = [out EXCEPT !.abortScheduled = FALSE]
    /\ UNCHANGED pc

\* The timeout elapses: abort, then reject 'Function timed out.'
TimerFires ==
    /\ inp.timer = "armed"
    /\ \E how \in {"ended", "failed"} :
         inp' = [Abort(inp, how) EXCEPT !.timer = "fired"]
    /\ out' = Reject(out, "Function timed out.")
    /\ UNCHANGED pc

\* The node finalizes a block and the open stream delivers it.
BlockArrives ==
    /\ inp.stream = "open"
    /\ inp.pending < MaxBlocks
    /\ inp' = [inp EXCEPT !.pending = inp.pending + 1]
    /\ UNCHANGED <<pc, out>>

TransactionCommitted ==
    /\ inp.status = "received"
    /\ inp' = [inp EXCEPT !.status = "committed"]
    /\ UNCHANGED <<pc, out>>

TransactionFinalized ==
    /\ inp.status \in {"received", "committed"}
    /\ \E b \in BlockHashes :
         inp' = [inp EXCEPT !.status = "finalized", !.blockHash = b]
    /\ UNCHANGED <<pc, out>>

\* The node closes the stream, or the connection breaks.
StreamEnds ==
    /\ inp.stream = "open"
    /\ \E how \in {"ended", "failed"} : inp' = [inp EXCEPT !.stream = how]
    /\ UNCHANGED <<pc, out>>

NextWait ==
    \/ Begin
    \/ StatusAnswers
    \/ NextBlock
    \/ LoopEnds
    \/ LoopThrows
    \/ ScheduledAbort
    \/ TimerFires
    \/ BlockArrives
    \/ TransactionCommitted
    \/ TransactionFinalized
    \/ StreamEnds

\* The event loop runs every continuation that is ready, and an open stream
\* goes on delivering the blocks the node finalizes.
SpecWait ==
    /\ InitWait
    /\ [][NextWait]_vars
    /\ WF_vars(Begin)
    /\ WF_vars(StatusAnswers)
    /\ WF_vars(NextBlock)
    /\ WF_vars(BlockArrives)

-----------------------------------------------------------------------------
(* Claims *)

Decoders ==
    {"deserializeCIS4CredentialEntry", "deserializeOptional",
     "deserializeCIS4MetadataResponse", "deserializeCIS4CredentialStatus",
     "deserializeCIS4RevocationKey", "deserializeSupportResultItem"}

\* C5: a decoder given fewer bytes than the value it decodes takes (a prefix
\* of the bytes of a value, cut inside a fixed-width field or inside the
\* bytes a length or count prefix announces) fails with an underflow error;
\* it returns no value.
C5_TruncatedInputUnderflows ==
    (pc \in Decoders /\ inp.tamper = "none" /\ Len(inp.bytes) < inp.need)
        => (~out.ok /\ IsUnderflow(out.err))

\* A revocation key cut inside its 8-byte nonce is refused.
C5_Witness ==
    /\ pc = "deserializeCIS4RevocationKey"
    /\ Len(inp.bytes) >= 32
    /\ Len(inp.bytes) < inp.need
    /\ ~out.ok

\* The i-th address held by a buffer after its two header bytes.
AddressAt(buffer, i) ==
    [index |-> Reverse(SubSeq(buffer, 2 + 16 * (i - 1) + 1, 2 + 16 * (i - 1) + 8)),
     subindex |-> Reverse(SubSeq(buffer, 2 + 16 * (i - 1) + 9, 2 + 16 * i))]

\* C6: the address list of a SupportBy result has exactly as many elements as
\* its count byte declares, in buffer order, and takes exactly their bytes;
\* when the count declares more addresses than the buffer holds the decode
\* fails with an underflow error instead of returning a shorter list.
C6_ListHasDeclaredCount ==
    (pc = "deserializeSupportResultItem" /\ Len(inp.bytes) >= 2 /\ inp.bytes[1] = 2)
        => LET n == inp.bytes[2]
               avail == Len(inp.bytes) - 2 IN
           /\ (16 * n > avail) => (~out.ok /\ IsUnderflow(out.err))
           /\ (16 * n <= avail) => out.ok
           /\ out.ok => /\ Len(out.val.addresses) = n
                        /\ out.cur = 2 + 16 * n
                        /\ \A i \in 1..n :
                              out.val.addresses[i] = AddressAt(inp.bytes, i)

\* A count of 2 read from a buffer that holds more than two addresses' bytes.
C6_Witness ==
    /\ pc = "deserializeSupportResultItem"
    /\ out.ok
    /\ inp.bytes[1] = 2
    /\ Len(out.val.addresses) = 2
    /\ out.val.addresses[1] # out.val.addresses[2]

\* A count that declares more addresses than the buffer holds.
C6_WitnessOverrun ==
    /\ pc = "deserializeSupportResultItem"
    /\ Len(inp.bytes) >= 2 + 16
    /\ inp.bytes[1] = 2
    /\ 16 * inp.bytes[2] > Len(inp.bytes) - 2
    /\ ~out.ok

\* C10: an optional value whose presence flag is neither 0 nor 1 fails to
\* decode, on its own and as the validUntil of a credential entry.
C10_OtherFlagRejected ==
    (/\ pc \in {"deserializeOptional", "deserializeCIS4CredentialEntry"}
     /\ inp.tamper = "optionFlag")
        => ~out.ok

\* What the code does with such a flag when the payload's bytes follow: it
\* takes the value as present.
C10_OtherFlagTakenAsPresent ==
    (/\ pc = "deserializeOptional"
     /\ inp.tamper = "optionFlag"
     /\ Len(inp.bytes) = 9)
        => (out.ok /\ out.val = [ms |-> Reverse(SubSeq(inp.bytes, 2, 9))])

SupportedTags == {TypeTag(k) : k \in SupportedKinds}

\* C2: deserializing what serializeAccountTransactionForSubmission wrote for
\* a Transfer, TransferWithMemo or RegisterData transaction and its signatures
\* gives back an account transaction equal to the transaction and signatures
\* equal to the signatures, whatever the expiry.
C2_SubmissionRoundTrip ==
    (/\ pc = "deserializeTransaction"
     /\ inp.tamper = "none"
     /\ inp.transaction.type \in SupportedKinds)
        => /\ out.ok
           /\ out.val.kind = "AccountTransactionKind"
           /\ out.val.transaction.accountTransaction = inp.transaction
           /\ out.val.transaction.signatures = inp.signatures

\* A memo transfer that expired in 2000, signed by two credentials, is back.
C2_Witness ==
    /\ pc = "deserializeTransaction"
    /\ inp.tamper = "none"
    /\ out.ok
    /\ inp.transaction.type = "TransferWithMemo"
    /\ inp.transaction.payload.memo # <<>>
    /\ inp.transaction.header.expiry.expiryEpochSeconds = ToWord(949359600, 8)
    /\ DOMAIN inp.signatures = {0, 1}
    /\ out.val.transaction.accountTransaction.payload.amount = ToWord(5100000, 8)

C3_WitnessEnergy ==
    /\ pc = "reserializeAccountTransaction"
    /\ inp.tamper = "energy"
    /\ Len(out.val) = Len(inp.blob)
    /\ out.val # inp.blob

\* C4: a blob whose transaction kind tag is not Transfer, TransferWithMemo or
\* RegisterData makes the whole deserializeTransaction call fail: no value is
\* returned.
C4_UnsupportedKindFails ==
    (pc = "deserializeTransaction" /\ inp.kindTag \notin SupportedTags)
        => ~out.ok

\* A well-formed ConfigureDelegation transaction is refused.
C4_Witness ==
    /\ pc = "deserializeTransaction"
    /\ inp.tamper = "none"
    /\ inp.transaction.type = "ConfigureDelegation"
    /\ inp.kindTag = 26
    /\ ~out.ok
    /\ out.err = "UnsupportedTransactionKindError"

\* The bytes of a message: its UTF-8 encoding when it is a string.
MessageBytes(message) ==
    IF HasField(message, "str") THEN Utf8Encode(message.str) ELSE message.bytes

\* C8: the digest signMessage signs is the hash of the 32 address bytes, eight
\* zero bytes and the message bytes, and verifyMessageSignature recomputes
\* that digest for the same account and message and accepts the signature.
C8_MessageDigestLayout ==
    /\ (pc = "signMessage") =>
          LET P == out.digest.sha256
              m == MessageBytes(inp.message) IN
          /\ Len(P) = 32 + 8 + Len(m)
          /\ SubSeq(P, 1, 32) = inp.account.decodedAddress
          /\ \A i \in 33..40 : P[i] = 0
          /\ SubSeq(P, 41, Len(P)) = m
          /\ out.key = KeyOf(inp.account)
    /\ (/\ pc = "verifyMessageSignature"
        /\ inp.accountInfo.accountAddress = inp.account
        /\ inp.vMessage = inp.message) =>
          /\ out.digest = inp.signature.digest
          /\ out.valid

\* The string "té" is signed as the bytes 74 c3 a9 behind the padding.
C8_Witness ==
    /\ pc = "signMessage"
    /\ inp.message = [str |-> <<116, 233>>]
    /\ Drop(out.digest.sha256, 40) = <<116, 195, 169>>

\* The signature of that string is verified for the account that signed it.
C8_WitnessVerify ==
    /\ pc = "verifyMessageSignature"
    /\ inp.message = [str |-> <<116, 233>>]
    /\ inp.vMessage = inp.message
    /\ inp.accountInfo.accountAddress = inp.account
    /\ out.valid

C9_WitnessNonceZero ==
    /\ pc = "signMessage"
    /\ inp.prior = "transaction"
    /\ inp.nonce = ToWord(0, 8)
    /\ out.digest = inp.txDigest

C1_WitnessStruct ==
    /\ pc = "deserializeTypeValue"
    /\ inp.schema.k = "struct"
    /\ inp.bytes = <<0, 0, 11, 0, 0, 0>> \o AGoodItem.str
    /\ out.ok
    /\ out.val.item = AGoodItem

\* The discriminant a contract state starts with.
StateDiscriminant(S, state) ==
    IF Len(S.variants) <= 256 THEN state[1] ELSE state[1] + 256 * state[2]

\* C7: the discriminant of an enum selects the variant at that zero-based
\* place of the declaration: discriminant 0 the first variant (the PiggyBank
\* state 00 is Intact), and a discriminant that is the number of variants or
\* more fails with an unknown-variant error.
C7_EnumByDeclarationIndex ==
    (/\ pc = "deserializeContractState"
     /\ inp.contractName \in DOMAIN SampleModuleSchema
     /\ Len(inp.state) >= DiscriminantWidth(SampleModuleSchema[inp.contractName].state))
        => LET S == SampleModuleSchema[inp.contractName].state
               d == StateDiscriminant(S, inp.state) IN
           /\ (d >= Len(S.variants))
                 => (~out.ok /\ out.err = "UnknownVariantError")
           /\ (d < Len(S.variants) /\ out.ok)
                 => (DOMAIN out.val = {S.variants[d + 1].name})
           /\ (d < Len(S.variants) /\ ~out.ok)
                 => (out.err # "UnknownVariantError")
           /\ (d = 0) => (out.ok /\ DOMAIN out.val = {S.variants[1].name})

\* The PiggyBank state 00 is Intact.
C7_Witness ==
    /\ pc = "deserializeContractState"
    /\ inp.contractName = "PiggyBank"
    /\ inp.state = <<0>>
    /\ out.ok
    /\ out.val = "Intact" :> <<>>

\* The PiggyBank state 02 names no variant.
C7_WitnessUnknown ==
    /\ pc = "deserializeContractState"
    /\ inp.contractName = "PiggyBank"
    /\ inp.state = <<2>>
    /\ ~out.ok
    /\ out.err = "UnknownVariantError"

\* C11: a holderRevocable byte that is neither 0 nor 1 makes the decode of a
\* credential entry fail with an invalid-boolean error.
C11_OtherBoolRejected ==
    (pc = "deserializeCIS4CredentialEntry" /\ inp.tamper = "boolByte")
        => (~out.ok /\ out.err = "InvalidBooleanError")

\* What the code does with such a byte: the entry is returned, with
\* holderRevocable false.
C11_OtherBoolTakenAsFalse ==
    (pc = "deserializeCIS4CredentialEntry" /\ inp.tamper = "boolByte")
        => (out.ok /\ out.val.credentialInfo.holderRevocable = FALSE)

\* C12: deserializeCIS4CredentialEntry, deserializeCIS4MetadataResponse and
\* deserializeCIS4CredentialStatus return a value only when they have read
\* every byte of their input.
C12_WholeInputConsumed ==
    (/\ pc \in {"deserializeCIS4CredentialEntry",
                "deserializeCIS4MetadataResponse",
                "deserializeCIS4CredentialStatus"}
     /\ out.ok)
        => (out.cur.pos = Len(inp.bytes))

\* What the code does with bytes behind a value: the value is returned and
\* the bytes behind it stay unread.
C12_TrailingBytesIgnored ==
    (/\ pc \in {"deserializeCIS4CredentialEntry",
                "deserializeCIS4MetadataResponse",
                "deserializeCIS4CredentialStatus"}
     /\ inp.tamper = "trailing")
        => (out.ok /\ out.cur.pos = inp.need /\ out.cur.pos < Len(inp.bytes))

\* C13: a list response is decoded element by element until the buffer is
\* used up, with no count in front: the elements written one behind the
\* other come back, all of them and in buffer order, and a buffer that ends
\* inside an element fails.
C13_ListDecodedToExhaustion ==
    (pc \in {"deserializeCIS4RevocationKeys", "deserializeSupportResult"})
        => IF inp.cut = 0
           THEN out.ok /\ out.val = inp.sample /\ out.cur = Len(inp.bytes)
           ELSE IF inp.lastLen = 1
           THEN out.ok /\ out.val = Take(inp.sample, Len(inp.sample) - 1)
           ELSE ~out.ok

\* Three elements of different lengths, back in the order of the buffer.
C13_Witness ==
    /\ pc = "deserializeSupportResult"
    /\ inp.cut = 0
    /\ out.ok
    /\ Len(out.val) = 3
    /\ out.val[1].type = 2 /\ Len(out.val[1].addresses) = 2
    /\ out.val[2].type = 0
    /\ out.val[3].type = 1

\* Two revocation keys and all but the last byte of a third.
C13_WitnessCut ==
    /\ pc = "deserializeCIS4RevocationKeys"
    /\ inp.cut = 1
    /\ Len(inp.bytes) = 3 * 40 - 1
    /\ ~out.ok

\* The bytes of a written revocation at offsets from + 1 .. from + n.
RevocationSlice(from, n) == SubSeq(out.val, from + 1, from + n)

\* Offset of the nonce: behind the key, the address and the entrypoint.
NonceAt == 32 + 16 + 2 + Len(inp.signingData.entrypoint)

\* C14: in the bytes of serializeCIS4RevocationDataHolder and
\* serializeCIS4RevocationDataOther the contract index and subindex, the
\* length of the entrypoint, the nonce and the timestamp are all written
\* little-endian.
C14_AllIntegersLittleEndian ==
    (pc \in {"serializeCIS4RevocationDataHolder",
             "serializeCIS4RevocationDataOther"})
        => /\ RevocationSlice(32, 8) =
                  Reverse(inp.signingData.contractAddress.index)
           /\ RevocationSlice(40, 8) =
                  Reverse(inp.signingData.contractAddress.subindex)
           /\ readUInt16LE(RevocationSlice(48, 2)) =
                  Len(inp.signingData.entrypoint)
           /\ RevocationSlice(NonceAt, 8) = Reverse(inp.signingData.nonce)
           /\ RevocationSlice(NonceAt + 8, 8) =
                  Reverse(inp.signingData.timestamp.ms)

\* What the code writes: everything little-endian but the nonce, which is
\* big-endian.
C14_NonceBigEndian ==
    (pc \in {"serializeCIS4RevocationDataHolder",
             "serializeCIS4RevocationDataOther"})
        => /\ RevocationSlice(32, 8) =
                  Reverse(inp.signingData.contractAddress.index)
           /\ RevocationSlice(40, 8) =
                  Reverse(inp.signingData.contractAddress.subindex)
           /\ readUInt16LE(RevocationSlice(48, 2)) =
                  Len(inp.signingData.entrypoint)
           /\ RevocationSlice(NonceAt, 8) = inp.signingData.nonce
           /\ RevocationSlice(NonceAt + 8, 8) =
                  Reverse(inp.signingData.timestamp.ms)

C15_WitnessBothFail ==
    /\ pc = "deserializeTypeValueSameBytes"
    /\ inp.selector = "returnValue"
    /\ inp.contractName = "CIS2-wCCD-State"
    /\ inp.bytes = <<128>>
    /\ ~out.ok /\ ~inp.moduleResult.ok

\* The value of two bytes read as a little-endian two's complement number.
Int16LE(bytes) ==
    bytes[1] + 256 * bytes[2] - (IF bytes[2] >= 128 THEN 65536 ELSE 0)

\* C16: 80 f1 8c 27 as the return value of getBalance of CIS2-wCCD-State is
\* the decimal string "82000000"; two bytes as a signed 16-bit error are the
\* little-endian two's complement number, ff ff being -1 and 01 00 being 1.
C16_DecodedNumbers ==
    /\ (/\ pc = "deserializeReceiveReturnValue"
        /\ inp.contractName = "CIS2-wCCD-State"
        /\ inp.functionName = "getBalance"
        /\ inp.bytes = <<128, 241, 140, 39>>)
           => (out.ok /\ out.val = [str |-> <<56, 50, 48, 48, 48, 48, 48, 48>>])
    /\ (/\ pc = "deserializeReceiveError"
        /\ inp.contractName = "TestContract"
        /\ inp.functionName = "receive_function"
        /\ Len(inp.bytes) = 2)
           => (/\ out.ok
               /\ out.val = Int16LE(inp.bytes)
               /\ inp.bytes = <<255, 255>> => out.val = -1)
    /\ (/\ pc = "deserializeInitError"
        /\ inp.contractName = "TestContract"
        /\ Len(inp.bytes) = 2)
           => (/\ out.ok
               /\ out.val = Int16LE(inp.bytes)
               /\ inp.bytes = <<1, 0>> => out.val = 1)

\* ff ff decoded as the error of receive_function.
C16_Witness ==
    /\ pc = "deserializeReceiveError"
    /\ inp.contractName = "TestContract"
    /\ inp.functionName = "receive_function"
    /\ inp.bytes = <<255, 255>>
    /\ out.ok /\ out.val = -1

\* 80 f1 8c 27 decoded as the balance.
C16_WitnessBalance ==
    /\ pc = "deserializeReceiveReturnValue"
    /\ inp.contractName = "CIS2-wCCD-State"
    /\ inp.functionName = "getBalance"
    /\ inp.bytes = <<128, 241, 140, 39>>
    /\ out.ok /\ out.val.str = <<56, 50, 48, 48, 48, 48, 48, 48>>

\* 01 00 decoded as the error of init.
C16_WitnessInit ==
    /\ pc = "deserializeInitError"
    /\ inp.contractName = "TestContract"
    /\ inp.bytes = <<1, 0>>
    /\ out.ok /\ out.val = 1

\* The result of a decode call that runs alone.
RunAlone(call) ==
    IF call.fun = "deserializeCIS4CredentialEntry"
    THEN deserializeCIS4CredentialEntry(call.value)
    ELSE deserializeSupportResult(call.value)

\* C17: however the statements of two or more decode calls interleave, each
\* call that has finished has the result it has when it runs alone on its
\* value, and every call reads its own value through its own cursor.
C17_CallsDoNotInterfere ==
    (pc = "concurrent")
        => \A p \in DOMAIN out :
              /\ out[p].cursor.data = fromHex(inp[p].value)
              /\ out[p].stage \in {"returned", "thrown"}
                    => out[p].result = RunAlone(inp[p])

\* Two calls on different values have finished, one with an entry and one
\* with a failure.
C17_Witness ==
    /\ pc = "concurrent"
    /\ out[1].stage = "returned"
    /\ out[1].fun = "deserializeCIS4CredentialEntry"
    /\ out[2].stage = "thrown"
    /\ out[2].fun = "deserializeCIS4CredentialEntry"
    /\ inp[1].value # inp[2].value

\* Two calls both part of the way through their reads.
C17_WitnessInterleaved ==
    /\ pc = "concurrent"
    /\ out[1].stage = "validUntil"
    /\ out[2].stage = "schemaRef"
    /\ inp[1].value # inp[2].value

\* getInstanceInfo has answered the cis0Supports call in progress.
Cis0InfoKnown ==
    /\ pc \in {"cis0Supports", "cis0Supports:invokeContract"}
    /\ HasField(inp, "instanceInfo")

\* The instance is there and "a.supports" is not among its methods.
Cis0LacksSupports ==
    /\ inp.instanceInfo # Undefined
    /\ \A m \in inp.instanceInfo.methods : m # <<97>> \o DotSupports

\* C18: cis0Supports returns undefined exactly when the method list of the
\* instance lacks "<contractName>.supports", and then it has made no
\* invokeContract call; when there is no instance info it throws.
C18_UndefinedIffNoSupportsMethod ==
    Cis0InfoKnown
        => /\ Cis0LacksSupports =>
                 /\ pc = "cis0Supports"
                 /\ out.state = "returned" /\ out.value = Undefined
                 /\ out.invokes = <<>>
           /\ (pc = "cis0Supports" /\ out.state = "returned"
                 /\ out.value = Undefined) => Cis0LacksSupports
           /\ inp.instanceInfo = Undefined =>
                 /\ pc = "cis0Supports"
                 /\ out.state = "thrown"
                 /\ out.error = "Could not get contract instance info"
                 /\ out.invokes = <<>>

\* An instance with "b.supports" and "a.view" but no "a.supports": undefined
\* comes back and nothing was invoked.
C18_Witness ==
    /\ pc = "cis0Supports"
    /\ inp.instanceInfo # Undefined
    /\ (<<98>> \o DotSupports) \in inp.instanceInfo.methods
    /\ (<<97>> \o DotSupports) \notin inp.instanceInfo.methods
    /\ out.state = "returned" /\ out.value = Undefined
    /\ out.invokes = <<>>

\* No instance info: the call throws.
C18_WitnessThrows ==
    /\ pc = "cis0Supports"
    /\ inp.instanceInfo = Undefined
    /\ out.state = "thrown"

\* invokeContract has answered with the results the contract wrote.
Cis0ResultsKnown ==
    /\ pc = "cis0Supports"
    /\ HasField(inp, "response")
    /\ inp.response # Undefined
    /\ HasField(inp.response, "items")

\* The number of results cis0Supports was asked for.
Cis0Asked ==
    IF inp.standardIds.isArray THEN Len(inp.standardIds.ids) ELSE 1

\* C19: asked for a list of n identifiers, cis0Supports returns the n
\* results of the response in their order; asked for one identifier, the
\* one result; and when the response holds another number of results than
\* asked for it throws the mismatch error.
C19_OneResultPerIdentifier ==
    Cis0ResultsKnown
        => IF Len(inp.response.items) = Cis0Asked
           THEN /\ out.state = "returned"
                /\ inp.standardIds.isArray =>
                      /\ out.value = [array |-> inp.response.items]
                      /\ Len(out.value.array) = Len(inp.standardIds.ids)
                /\ ~inp.standardIds.isArray =>
                      out.value = inp.response.items[1]
           ELSE /\ out.state = "thrown"
                /\ out.error = "Mismatch between length of queries in request and values in response."

\* Three identifiers asked for, three results back, in the order written.
C19_Witness ==
    /\ Cis0ResultsKnown
    /\ inp.standardIds.isArray
    /\ Len(inp.standardIds.ids) = 3
    /\ out.state = "returned"
    /\ Len(out.value.array) = 3
    /\ out.value.array[1].type = 2
    /\ out.value.array[2].type = 0
    /\ out.value.array[3].type = 1

\* One identifier asked for, two results in the response.
C19_WitnessMismatch ==
    /\ Cis0ResultsKnown
    /\ ~inp.standardIds.isArray
    /\ Len(inp.response.items) = 2
    /\ out.state = "thrown"

\* The request cis0Supports sent: the count of identifiers, then each.
C19_WitnessRequest ==
    /\ Cis0ResultsKnown
    /\ inp.standardIds.isArray
    /\ Len(inp.standardIds.ids) = 2
    /\ Len(out.invokes) = 1
    /\ SubSeq(out.invokes[1].parameter, 1, 3) = <<2, 0, 5>>
    /\ out.invokes[1].method = <<97>> \o DotSupports

\* What holds of waitForTransactionFinalization at every moment: the stream
\* was open when the first status query went out; one query at the start and
\* one more for every block taken from the stream; a promise that is
\* resolved was resolved from a finalized status, with the block hash of its
\* outcome, and by the first answer that said finalized.
C20_Safe ==
    /\ out.queries >= 1 => out.openAtFirstQuery
    /\ pc # "start" => out.queries = out.received + 1
    /\ out.promise = "resolved" =>
          /\ out.resolvedFrom = "finalized"
          /\ out.value = inp.blockHash
          /\ out.value \in BlockHashes
          /\ out.lastAnswer = "finalized"
    /\ out.lastAnswer = "finalized" =>
          /\ pc = "finished"
          /\ out.promise = "resolved" \/ inp.timer = "fired"

\* The timeout has elapsed, or the stream has stopped before the promise
\* was resolved.
Interrupted ==
    \/ inp.timer = "fired"
    \/ inp.stream \in {"ended", "failed"} /\ out.promise # "resolved"

C20_WitnessTimeout ==
    /\ out.promise = "rejected"
    /\ out.value = "Function timed out."
    /\ inp.status # "finalized"

C21_WitnessResolvedFirst ==
    /\ inp.timer = "fired"
    /\ out.promise = "resolved"
    /\ out.value \in BlockHashes

\* The stream ended on its own.
C21_WitnessStreamEnd ==
    /\ pc = "finished"
    /\ ~inp.aborted
    /\ out.promise = "rejected"
    /\ out.value = "Unexpected end of stream."

\* A string of 64 hex digits.
IsHash32(str) == Len(str) = 64 /\ \A i \in 1..Len(str) : str[i] \in 0..15

\* C22: a query with no block hash or the empty one asks at the last
\* finalized block; with a hash of 32 bytes in hex it asks at the block
\* given by exactly those bytes; with any other string it throws 'The input
\* was not a valid hash, must be 32 bytes' and sends no request.
C22_BlockHashInput ==
    (pc \in {"getModuleSource", "getModuleSource:await"})
        => IF ~inp.blockHash.given \/ inp.blockHash.str = <<>>
           THEN /\ Len(out.requests) = 1
                /\ out.requests[1].blockHash = [oneofKind |-> "lastFinal"]
           ELSE IF IsHash32(inp.blockHash.str)
           THEN /\ Len(out.requests) = 1
                /\ out.requests[1].blockHash.oneofKind = "given"
                /\ Len(out.requests[1].blockHash.given) = 32
                /\ \A i \in 1..32 :
                      out.requests[1].blockHash.given[i] =
                          16 * inp.blockHash.str[2 * i - 1]
                             + inp.blockHash.str[2 * i]
           ELSE /\ pc = "getModuleSource"
                /\ out.state = "thrown"
                /\ out.error = "The input was not a valid hash, must be 32 bytes"
                /\ out.requests = <<>>

\* 64 characters, the last of them no hex digit: thrown, nothing sent.
C22_Witness ==
    /\ pc = "getModuleSource"
    /\ inp.blockHash.given
    /\ Len(inp.blockHash.str) = 64
    /\ inp.blockHash.str[64] = NotHex
    /\ out.state = "thrown"
    /\ out.requests = <<>>

\* A valid hash: the module came back from the block given.
C22_WitnessGiven ==
    /\ pc = "getModuleSource"
    /\ out.state = "returned"
    /\ out.requests[1].blockHash.oneofKind = "given"
    /\ out.requests[1].blockHash.given[32] = 254

\* The empty string: the request went to the last finalized block.
C22_WitnessEmpty ==
    /\ pc = "getModuleSource:await"
    /\ inp.blockHash.given
    /\ inp.blockHash.str = <<>>
    /\ out.requests[1].blockHash.oneofKind = "lastFinal"

\* C29: deserializeCIS4CredentialStatus returns one of the four declared
\* statuses (Active 0, Revoked 1, Expired 2, NotActivated 3) or throws: a
\* first byte above 3 and the empty input are not returned as a status.
C29_StatusDeclaredOrThrows ==
    (pc = "deserializeCIS4CredentialStatus" /\ out.ok)
        => (out.val \in CredentialStatus)

\* C28: getInvokerInput is total over the valid invokers: a contract
\* address, index 0 included, gives kind 'contract' carrying that address;
\* an account address gives kind 'account' with its decoded bytes; no
\* invoker gives undefined; anything else throws 'Unexpected input to build
\* invoker'.
C28_TotalOverValidInvokers ==
    (pc = "getInvokerInput")
        => IF "undefined" \in DOMAIN inp.invoker
           THEN out = [state |-> "returned", value |-> [undefined |-> TRUE]]
           ELSE IF DOMAIN inp.invoker = {"index", "subindex"}
           THEN /\ out.state = "returned"
                /\ out.value.type.oneofKind = "contract"
                /\ out.value.type.contract = inp.invoker
           ELSE IF DOMAIN inp.invoker = {"decodedAddress"}
           THEN /\ out.state = "returned"
                /\ out.value.type.oneofKind = "account"
                /\ out.value.type.account.value = inp.invoker.decodedAddress
           ELSE /\ out.state = "thrown"
                /\ out.error = "Unexpected input to build invoker"

\* C26: a Duration or Timestamp is never negative: every value returned by
\* Duration.fromMillis, fromString, fromSchemaValue, fromProto and by
\* Timestamp.fromMillis, fromDate, fromSchemaValue, fromProto, fromTypedJSON
\* is at least 0, and each throws for an input that denotes negative
\* milliseconds (for a date: one before 1 January 1970 UTC).
C26_NeverNegative ==
    /\ (pc \in DurationCalls \cup TimestampCalls /\ out.ok)
          => out.val.value >= 0
    /\ (/\ pc \in {"Duration.fromMillis", "Duration.fromProto",
                    "Timestamp.fromMillis", "Timestamp.fromDate",
                    "Timestamp.fromProto"}
        /\ \/ inp.value.kind = "integer" /\ inp.value.n < 0
           \/ inp.value.kind = "fraction" /\ inp.value.floor < 0)
          => ~out.ok
    /\ (/\ pc \in {"Duration.fromString", "Duration.fromSchemaValue",
                    "Timestamp.fromTypedJSON"}
        /\ inp.string # <<>>
        /\ inp.string[1] = "-")
          => ~out.ok
    /\ (pc = "Timestamp.fromSchemaValue" /\ inp.timestamp \in BeforeEpoch)
          => ~out.ok

\* Duration.fromMillis(-1) throws.
C26_Witness ==
    /\ pc = "Duration.fromMillis"
    /\ inp.value = Integer(0 - 1)
    /\ ~out.ok
    /\ out.err = "Invalid duration: The value cannot be a negative number."

\* Timestamp.fromSchemaValue of the last millisecond of 1969 throws.
C26_WitnessBeforeEpoch ==
    /\ pc = "Timestamp.fromSchemaValue"
    /\ inp.timestamp = "1969-12-31T23:59:59.999Z"
    /\ ~out.ok
    /\ out.err = "Invalid timestamp: The value cannot be a negative number."

\* Duration.fromString("10d 1h 2m 7s") is 867727000 ms.
C26_WitnessReturned ==
    /\ pc = "Duration.fromString"
    /\ Len(inp.string) = 12
    /\ out.ok
    /\ out.val.value = 867727000

\* C27: the schema value of a Duration reads back as that Duration: for
\* every Duration d, fromSchemaValue(toSchemaValue(d)) succeeds and has the
\* milliseconds of d.
C27_SchemaValueRoundTrip ==
    (pc = "Duration.toSchemaValue")
        => (out.ok /\ out.val.value = inp.duration.value)

=============================================================================
